---- MODULE Spec2Model ----
(***************************************************************************)
(* The procurement front-end's session state container                     *)
(* (ProcurementProvider), the route guard and the pages that call it,      *)
(* as a state machine.  One action per event-loop turn: a UI event, or the *)
(* continuation of an awaited request together with the re-render and the  *)
(* effects that follow it.                                                 *)
(***************************************************************************)
EXTENDS Integers, Sequences, FiniteSets, Bags, TLC

\* Upper bound on the asynchronous operations awaiting a response at once.
MaxPending == 2

-----------------------------------------------------------------------------
(* JavaScript values.  Every value is a record tagged by t.                *)

JsNull == [t |-> "null"]
JsUndefined == [t |-> "undefined"]
JsString(s) == [t |-> "string", s |-> s]
UserIdentity(id) == [t |-> "user", id |-> id]
ProcurementReport(id) == [t |-> "report", id |-> id]

\* The identity the auth backend answers with and the reports the procurement
\* backend produces (representatives).
UserIds == {"u1"}
ReportIds == {"r1", "r2"}
Users == {UserIdentity(id) : id \in UserIds}
Reports == {ProcurementReport(id) : id \in ReportIds}

\* The text axios hands back as response.data when a 2xx body is not JSON.
RawBody == JsString("<html>")

\* JavaScript truthiness, as used by `x || null`, `if (x)` and `!x`.
Truthy(v) ==
    CASE v.t = "null" -> FALSE
      [] v.t = "undefined" -> FALSE
      [] v.t = "string" -> v.s # ""
      [] OTHER -> TRUE

\* a || b
OrElse(a, b) == IF Truthy(a) THEN a ELSE b

-----------------------------------------------------------------------------
(* JSON text, as a sequence of tokens.                                     *)

\* JSON.stringify(v): undefined has no JSON text and yields undefined.
JSONstringify(v) ==
    CASE v.t = "null" -> <<"null">>
      [] v.t = "string" -> <<"\"", v.s, "\"">>
      [] v.t = "user" -> <<"{", "id", ":", v.id, "}">>
      [] v.t = "report" -> <<"{", "report", ":", v.id, "}">>
      [] OTHER -> <<>>

\* What setItem stores for the value handed to it: a string as is, and
\* undefined coerced to the text undefined.
StoredText(v) == IF v.t = "undefined" THEN <<"undefined">> ELSE JSONstringify(v)

SyntaxError == [t |-> "SyntaxError"]

\* JSON.parse(text); SyntaxError stands for the exception.
JSONparse(text) ==
    CASE text = <<"null">> -> JsNull
      [] Len(text) = 3 /\ text[1] = "\"" /\ text[3] = "\"" -> JsString(text[2])
      [] Len(text) = 5 /\ text[1] = "{" /\ text[2] = "id" /\ text[5] = "}"
            -> UserIdentity(text[4])
      [] Len(text) = 5 /\ text[1] = "{" /\ text[2] = "report" /\ text[5] = "}"
            -> ProcurementReport(text[4])
      [] OTHER -> SyntaxError

-----------------------------------------------------------------------------
(* localStorage: key -> stored text, <<>> for an absent key.               *)

StorageKeys == {"user", "procurementData"}
Absent == <<>>

\* localStorage.getItem(key) followed by JSON.parse: getItem gives null for
\* an absent key, which JSON.parse reads as the text null.
ParseItem(store, key) ==
    IF store[key] = Absent THEN JsNull ELSE JSONparse(store[key])

SetItem(store, key, v) == [store EXCEPT ![key] = StoredText(v)]
RemoveItem(store, key) == [store EXCEPT ![key] = Absent]

\* setItem throws QuotaExceededError only when it has to store new content.
MayThrowQuota(store, key, v) == store[key] # StoredText(v)

-----------------------------------------------------------------------------
(* Router locations.                                                       *)

ProtectedPaths == {"/budget", "/schedule", "/materials"}
PublicPaths == {"/", "/login", "/signup"}
Paths == PublicPaths \cup ProtectedPaths

NoState == [t |-> "none"]
QueryState(q) == [t |-> "query", query |-> q]
FromState(loc) == [t |-> "from", pathname |-> loc.pathname, state |-> loc.state]
Location(p, s) == [pathname |-> p, state |-> s]

\* ProtectedRoute wrapped around the three dashboard routes: without a user the
\* location is replaced by /login carrying the requested location.
ProtectedRoute_NoGuard(loc, usr) == loc
ProtectedRoute(loc, usr) ==
    IF loc.pathname \in ProtectedPaths /\ ~Truthy(usr)
    THEN Location("/login", FromState(loc))
    ELSE loc

-----------------------------------------------------------------------------
(* State.                                                                  *)

VARIABLES
    procurementData,        \* context: the current report, or null
    isLoading,              \* context: an analysis is running
    error,                  \* context: last analysis failure message, or null
    user,                   \* context: the authenticated identity, or null
    conversations,          \* context: conversation list slot
    currentConversationId,  \* context: the selected conversation, or null
    localStorage,           \* durable storage of the origin
    location,               \* the router's current location
    mounted,                \* the React tree is mounted (FALSE after a render crash)
    pending,                \* the bag of requests awaiting their response, each
                            \* with what the awaiting closure captured
    last,                   \* history: the last turn and the location it handed
                            \* to the router
    assistant,              \* the state of the AIAssistant component, which no
                            \* route of the application mounts
    layout,                 \* DashboardLayout's own state: the displayed messages
                            \* and the history list
    backend,                \* the conversation API's store
    rendered                \* what a view component has rendered of the report

vars == <<procurementData, isLoading, error, user, conversations,
          currentConversationId, localStorage, location, mounted, pending, last,
          assistant, layout, backend, rendered>>

\* The container's state as one value.
Ctx == [procurementData |-> procurementData, isLoading |-> isLoading,
        error |-> error, user |-> user, conversations |-> conversations,
        currentConversationId |-> currentConversationId,
        localStorage |-> localStorage]

NoNav == [pathname |-> "-", state |-> NoState]
Turn(op, nav) == [op |-> op, nav |-> nav]

HasFree(pend) == BagCardinality(pend) < MaxPending
Issue_Dedup(pend, req) == IF BagIn(req, pend) THEN pend ELSE pend (+) SetToBag({req})
Issue(pend, req) == pend (+) SetToBag({req})
Settle(pend, req) == pend (-) SetToBag({req})
InFlight(kind) == {r \in BagToSet(pending) : r.kind = kind}

-----------------------------------------------------------------------------
(* Messages.                                                               *)

QuotaMessage == "The quota has been exceeded."
AnalysisFallbackMessage == "Failed to analyze project"
\* Rejections of the axios request: no connection, and a non-2xx status.
AnalysisRejections == {"Network Error", "Request failed with status code 500"}
AuthBusinessErrors == {"Invalid credentials"}
RegisterBusinessErrors == {"Email already registered"}
\* fetch rejecting, and response.json() rejecting on a body that is not JSON.
TransportMessages == {"Failed to fetch", "Unexpected token < in JSON at position 0"}

-----------------------------------------------------------------------------
(* Rendering after a turn.                                                 *)

\* DashboardLayout is part of every dashboard page.  Its effect on [user] runs
\* when the layout mounts (a page load, or a change of route) and when user
\* changes, and calls fetchConversations when there is a user.
LayoutFetches(fresh, oldLoc, newLoc, oldUser, newUser) ==
    /\ newLoc.pathname \in ProtectedPaths
    /\ Truthy(newUser)
    /\ (fresh \/ oldLoc.pathname # newLoc.pathname \/ oldUser # newUser)

FetchConversationsRequest(convId) == [kind |-> "conversations", convId |-> convId]

\* The provider's effect on [procurementData]: a changed, truthy report is
\* written to storage.  The result is the storage after the effect, or the
\* storage unchanged with threw set when setItem throws.
PersistEffect(store, oldData, newData, changed, quota) ==
    IF ~(changed /\ Truthy(newData))
    THEN [store |-> store, threw |-> FALSE]
    ELSE IF quota /\ MayThrowQuota(store, "procurementData", newData)
    THEN [store |-> store, threw |-> TRUE]
    ELSE [store |-> SetItem(store, "procurementData", newData), threw |-> FALSE]

\* What a dashboard page renders: the loader while isLoading, else the no-data
\* message for a falsy report, else the report.  The budget and the schedule
\* page read fields of data.budget_breakdown and of data.schedule, which throws
\* for a value without them; the materials page reads its two fields with
\* `|| []` and `|| {}` and shows empty lists.
PageView_LoadingLast(pathname, loading, data) ==
    IF ~Truthy(data) THEN "no-data"
    ELSE IF loading THEN "loading"
    ELSE "report"
PageView(pathname, loading, data) ==
    IF loading THEN "loading"
    ELSE IF ~Truthy(data) THEN "no-data"
    ELSE IF data.t = "report" \/ pathname = "/materials" THEN "report"
    ELSE "throws"

RenderThrows(loc, loading, data) ==
    /\ loc.pathname \in ProtectedPaths
    /\ PageView(loc.pathname, loading, data) = "throws"

\* One turn of the event loop ends: the state updates c of the handler are
\* committed, the router takes the location nav, the route guard and the effects
\* run; an exception while rendering or in an effect unmounts the tree.  With
\* the tree unmounted only the handler's writes to storage and to
\* the browser's location remain.
Render(c, nav, pend, quota, turn) ==
    LET req == IF nav = NoNav THEN location ELSE nav
        loc == ProtectedRoute(req, c.user)
        eff == PersistEffect(c.localStorage, procurementData, c.procurementData,
                             c.procurementData # procurementData, quota)
        thrown == RenderThrows(loc, c.isLoading, c.procurementData)
        fetches == LayoutFetches(FALSE, location, loc, user, c.user)
                   /\ ~eff.threw /\ ~thrown
    IN  /\ last' = Turn(turn, nav)
        /\ IF mounted
           THEN /\ procurementData' = c.procurementData
                /\ isLoading' = c.isLoading
                /\ error' = c.error
                /\ user' = c.user
                /\ conversations' = c.conversations
                /\ currentConversationId' = c.currentConversationId
                /\ localStorage' = IF thrown THEN c.localStorage ELSE eff.store
                /\ location' = loc
                /\ mounted' = (~eff.threw /\ ~thrown)
                /\ fetches => HasFree(pend)
                /\ pending' = IF fetches
                              THEN Issue(pend, FetchConversationsRequest(c.currentConversationId))
                              ELSE pend
           ELSE /\ localStorage' = c.localStorage
                /\ location' = req
                /\ pending' = pend
                /\ UNCHANGED <<procurementData, isLoading, error, user,
                               conversations, currentConversationId, mounted>>

\* A turn of the container and its pages, with the chat panel's own state and
\* the conversation store left out of account.
Commit(c, nav, pend, quota, turn) ==
    /\ Render(c, nav, pend, quota, turn)
    /\ UNCHANGED <<assistant, layout, backend, rendered>>

-----------------------------------------------------------------------------
(* ProcurementProvider: construction.                                      *)

\* useState initialisers: JSON.parse(localStorage.getItem(key)) || null.
InitialProcurementData_Forgets(store) == JsNull
InitialProcurementData(store) == OrElse(ParseItem(store, "procurementData"), JsNull)
InitialUser_Anonymous(store) == JsNull
InitialUser(store) == OrElse(ParseItem(store, "user"), JsNull)

\* The page loads at loc with storage store: the provider's initial state, the
\* guard, the persistence effect and the layout's first effect.
Boot(store, loc) ==
    LET pd == InitialProcurementData(store)
        usr == InitialUser(store)
        shown == ProtectedRoute(loc, usr)
        crash == pd = SyntaxError \/ usr = SyntaxError \/ RenderThrows(shown, FALSE, pd)
        eff == PersistEffect(store, JsNull, pd, TRUE, FALSE)
    IN  [procurementData |-> IF crash THEN JsNull ELSE pd,
         isLoading |-> FALSE,
         error |-> JsNull,
         user |-> IF crash THEN JsNull ELSE usr,
         conversations |-> <<>>,
         currentConversationId |-> JsNull,
         localStorage |-> IF crash THEN store ELSE eff.store,
         location |-> IF crash THEN loc ELSE shown,
         mounted |-> ~crash,
         pending |-> IF ~crash /\ LayoutFetches(TRUE, loc, shown, usr, usr)
                     THEN Issue(EmptyBag, FetchConversationsRequest(JsNull))
                     ELSE EmptyBag]

Booted(b, turn) ==
    /\ procurementData = b.procurementData
    /\ isLoading = b.isLoading
    /\ error = b.error
    /\ user = b.user
    /\ conversations = b.conversations
    /\ currentConversationId = b.currentConversationId
    /\ localStorage = b.localStorage
    /\ location = b.location
    /\ mounted = b.mounted
    /\ pending = b.pending
    /\ last = turn

\* What an earlier session can have left in storage.
StoredUsers == {Absent} \cup {StoredText(u) : u \in Users}
StoredReports == {Absent} \cup {StoredText(r) : r \in Reports}
Stores == {[k \in StorageKeys |-> IF k = "user" THEN u ELSE r] :
              u \in StoredUsers, r \in StoredReports}

\* AIAssistant's useState initialisers, and the component not rendered.
AIAssistantInitial ==
    [messages |-> <<>>, input |-> <<>>, isLoading |-> FALSE, activeTab |-> "budget",
     hasStarted |-> FALSE, mounted |-> TRUE, pending |-> EmptyBag]
AIAssistantAbsent == [AIAssistantInitial EXCEPT !.mounted = FALSE]

\* DashboardLayout's useState initialisers, and the conversation store with
\* nothing in it.
LayoutInitial == [messages |-> <<>>, history |-> <<>>]
BackendEmpty == [list |-> <<>>, messages |-> <<>>]

\* No view component has rendered.
NoView == [page |-> "none"]

Init ==
    /\ rendered = NoView
    /\ assistant = AIAssistantAbsent
    /\ layout = LayoutInitial
    /\ backend = BackendEmpty
    /\ \E store \in Stores, p \in Paths :
          Booted(Boot(store, Location(p, NoState)), Turn("start", Location(p, NoState)))

\* The page is reloaded: the history entry keeps the location and its state,
\* every closure of the old page is gone.
Restart ==
        LET b == Boot(localStorage, location)
        IN  /\ procurementData' = b.procurementData
            /\ isLoading' = b.isLoading
            /\ error' = b.error
            /\ user' = b.user
            /\ conversations' = b.conversations
            /\ currentConversationId' = b.currentConversationId
            /\ localStorage' = b.localStorage
            /\ location' = b.location
            /\ mounted' = b.mounted
            /\ pending' = b.pending
            /\ last' = Turn("start", location)
            /\ UNCHANGED <<assistant, layout, backend, rendered>>

-----------------------------------------------------------------------------
(* Navigation by the user.                                                 *)

\* The links each page offers: the layout's header on the dashboard pages, and
\* the links between the two auth pages.
Links(p) ==
    CASE p \in ProtectedPaths -> {"/", "/budget", "/schedule", "/materials"}
      [] p = "/login" -> {"/signup"}
      [] p = "/signup" -> {"/login"}
      [] OTHER -> {}

ClickLink ==
    /\ mounted
    /\ \E p \in Links(location.pathname) :
          Commit(Ctx, Location(p, NoState), pending, FALSE,
                 "other")

\* Texts, as sequences of characters.
TextBlank == <<" ", " ", " ">>
TextOk == <<"o", "k">>
TextSteelQuote == <<"s", "t", "e", "e", "l", " ", "q", "u", "o", "t", "e">>
TextLong ==
    <<"p", "l", "e", "a", "s", "e", " ", "p", "l", "a", "n", " ", "t", "h",
      "e", " ", "t", "o", "w", "e", "r">>
TextEmpty == <<>>
TextTab == <<" ", "\t", "\n">>
TextUpperSteel == <<"N", "e", "e", "d", " ", "S", "T", "E", "E", "L">>
TextTwenty ==
    <<"p", "l", "a", "n", " ", "t", "h", "e", " ", "t", "o", "w", "e", "r",
      " ", "t", "o", "d", "a", "y">>
TextBudgeting == <<"B", "u", "d", "g", "e", "t", "i", "n", "g">>
TextConcrete == <<"c", "o", "n", "c", "r", "e", "t", "e">>
TextQuote == <<"a", " ", "Q", "u", "o", "t", "e", "?">>
TextPadded == <<" ", " ", "o", "k", " ", " ">>

\* What the user types: into the landing page's query box and into the chat.
LandingQueries == {TextSteelQuote}
ChatTexts == {TextBlank, TextOk, TextSteelQuote}

\* LandingPage.handleRunAnalysis: navigate('/budget', {state: {query}}).
LandingRunAnalysis ==
    /\ mounted
    /\ location.pathname = "/"
    /\ \E q \in LandingQueries :
          Commit(Ctx, Location("/budget", QueryState(q)), pending, FALSE,
                 "other")

-----------------------------------------------------------------------------
(* login and the Login page.                                               *)

LoginResponses ==
    {[t |-> "ok", user |-> u] : u \in Users}
    \cup {[t |-> "business", error |-> m] : m \in AuthBusinessErrors}
    \cup {[t |-> "transport", error |-> m] : m \in TransportMessages}

Success(u) == [success |-> TRUE, user |-> u]
Failure(m) == [success |-> FALSE, error |-> m]

\* login(email, password) once the response resp is there; quota: setItem
\* throws on new content.  Gives the state after and the value login resolves to.
login_AuthenticatesOnFailure(c, resp, quota) ==
    IF resp.t = "ok"
    THEN [ctx |-> [c EXCEPT !.user = resp.user,
                            !.localStorage = SetItem(c.localStorage, "user", resp.user)],
          result |-> Success(resp.user)]
    ELSE [ctx |-> [c EXCEPT !.user = UserIdentity("u1")], result |-> Failure(resp.error)]
login_NoPersist(c, resp, quota) ==
    IF resp.t = "ok"
    THEN [ctx |-> [c EXCEPT !.user = resp.user], result |-> Success(resp.user)]
    ELSE [ctx |-> c, result |-> Failure(resp.error)]
login(c, resp, quota) ==
    IF resp.t = "ok"
    THEN LET c1 == [c EXCEPT !.user = resp.user]
         IN  IF quota /\ MayThrowQuota(c.localStorage, "user", resp.user)
             THEN [ctx |-> c1, result |-> Failure(QuotaMessage)]
             ELSE [ctx |-> [c1 EXCEPT !.localStorage = SetItem(c.localStorage, "user", resp.user)],
                   result |-> Success(resp.user)]
    ELSE [ctx |-> c, result |-> Failure(resp.error)]

\* Login.handleSubmit after login resolved: where it navigates, from the
\* location state st the page was rendered with.
LoginTarget_Default(st) == Location("/budget", NoState)
LoginTarget(st) ==
    IF st.t = "from"
    THEN Location(st.pathname, st.state)
    ELSE Location("/budget", NoState)

LoginNavigation(result, st) ==
    IF result.success THEN LoginTarget(st) ELSE NoNav

LoginRequest(st) == [kind |-> "login", state |-> st]

\* Login.handleSubmit up to its await.
LoginSubmit ==
    /\ mounted
    /\ location.pathname = "/login"
    /\ HasFree(pending)
    /\ Commit(Ctx, NoNav, Issue(pending, LoginRequest(location.state)),
              FALSE, "other")

\* The response arrives: login runs to its end and handleSubmit continues.
LoginSettled(r) ==
    /\ r.kind = "login"
    /\ \E resp \in LoginResponses, quota \in BOOLEAN :
          LET done == login(Ctx, resp, quota)
              nav == LoginNavigation(done.result, r.state)
          IN  Commit(done.ctx, nav, Settle(pending, r), quota,
                     IF done.result.success THEN "login_ok"
                     ELSE IF resp.t = "ok" THEN "login_threw"
                     ELSE "login_failed")

-----------------------------------------------------------------------------
(* register and the Signup page.                                           *)

RegisterResponses ==
    {[t |-> "ok"]}
    \cup {[t |-> "business", error |-> m] : m \in RegisterBusinessErrors}
    \cup {[t |-> "transport", error |-> m] : m \in TransportMessages}

register_AutoLogin(c, resp) ==
    IF resp.t = "ok"
    THEN [ctx |-> [c EXCEPT !.user = UserIdentity("u1"),
                            !.localStorage = SetItem(c.localStorage, "user", UserIdentity("u1"))],
          result |-> [success |-> TRUE]]
    ELSE [ctx |-> c, result |-> Failure(resp.error)]
register(c, resp) ==
    IF resp.t = "ok"
    THEN [ctx |-> c, result |-> [success |-> TRUE]]
    ELSE [ctx |-> c, result |-> Failure(resp.error)]

\* Signup.handleSubmit after register resolved.
SignupNavigation(result) ==
    IF result.success THEN Location("/login", NoState) ELSE NoNav

RegisterRequest == [kind |-> "register"]

SignupSubmit ==
    /\ mounted
    /\ location.pathname = "/signup"
    /\ HasFree(pending)
    /\ Commit(Ctx, NoNav, Issue(pending, RegisterRequest), FALSE,
              "other")

RegisterSettled(r) ==
    /\ r.kind = "register"
    /\ \E resp \in RegisterResponses :
          LET done == register(Ctx, resp)
              nav == SignupNavigation(done.result)
          IN  Commit(done.ctx, nav, Settle(pending, r), FALSE,
                     IF done.result.success THEN "register_ok" ELSE "register_failed")

-----------------------------------------------------------------------------
(* logout.                                                                 *)

logout_KeepsReport(c) ==
    [c EXCEPT !.user = JsNull,
              !.localStorage = RemoveItem(c.localStorage, "user"),
              !.conversations = <<>>,
              !.currentConversationId = JsNull]
logout(c) ==
    [c EXCEPT !.user = JsNull,
              !.procurementData = JsNull,
              !.localStorage = RemoveItem(RemoveItem(c.localStorage, "user"), "procurementData"),
              !.conversations = <<>>,
              !.currentConversationId = JsNull]

\* The layout's Sign Out button.
Logout ==
    /\ mounted
    /\ location.pathname \in ProtectedPaths
    /\ Commit(logout(Ctx), Location("/", NoState), pending, FALSE,
              "logout")

-----------------------------------------------------------------------------
(* runAnalysis.                                                            *)

\* What analyzeProcurement settles with: the report of a 2xx JSON body, the raw
\* text of a 2xx body that is not JSON, or a rejection.
AnalysisResponses ==
    {[t |-> "resolved", data |-> d] : d \in Reports \cup {RawBody}}
    \cup {[t |-> "rejected", message |-> m] : m \in AnalysisRejections}

AnalysisRequest(query) == [kind |-> "analysis", query |-> query]

\* runAnalysis up to its await: setIsLoading(true); setError(null).
runAnalysisBegin_KeepsError(c) == [c EXCEPT !.isLoading = TRUE]
runAnalysisBegin(c) == [c EXCEPT !.isLoading = TRUE, !.error = JsNull]

\* err.message || "Failed to analyze project"
AnalysisErrorText(message) ==
    IF message # "" THEN message ELSE AnalysisFallbackMessage

\* The finally block.
Finally_KeepsLoading(c) == c
Finally(c) == [c EXCEPT !.isLoading = FALSE]

\* runAnalysis from its await on: try, catch, finally.  Gives the state after,
\* the location handed to navigate, and how the promise runAnalysis returned
\* settles: the catch block swallows what the try block throws.
runAnalysisSettle_Rethrows(c, query, resp, quota) ==
    IF resp.t = "resolved"
    THEN [ctx |-> Finally([c EXCEPT !.procurementData = resp.data,
                                    !.localStorage =
                                       SetItem(c.localStorage, "procurementData", resp.data)]),
          nav |-> Location("/budget", QueryState(query)),
          promise |-> "fulfilled"]
    ELSE [ctx |-> Finally(c), nav |-> NoNav, promise |-> "rejected"]
runAnalysisSettle(c, query, resp, quota) ==
    IF resp.t = "resolved"
    THEN LET c1 == [c EXCEPT !.procurementData = resp.data]
         IN  IF quota /\ MayThrowQuota(c.localStorage, "procurementData", resp.data)
             THEN [ctx |-> Finally([c1 EXCEPT !.error = JsString(AnalysisErrorText(QuotaMessage))]),
                   nav |-> NoNav,
                   promise |-> "fulfilled"]
             ELSE [ctx |-> Finally([c1 EXCEPT !.localStorage =
                                       SetItem(c.localStorage, "procurementData", resp.data)]),
                   nav |-> Location("/budget", QueryState(query)),
                   promise |-> "fulfilled"]
    ELSE [ctx |-> Finally([c EXCEPT !.error = JsString(AnalysisErrorText(resp.message))]),
          nav |-> NoNav,
          promise |-> "fulfilled"]

AnalysisSettled(r) ==
    /\ r.kind = "analysis"
    /\ \E resp \in AnalysisResponses, quota \in BOOLEAN :
          LET done == runAnalysisSettle(Ctx, r.query, resp, quota)
          IN  Commit(done.ctx, done.nav, Settle(pending, r), quota,
                     IF resp.t = "rejected" THEN "analysis_rejected"
                     ELSE IF done.nav = NoNav THEN "analysis_threw"
                     ELSE "analysis_resolved")

-----------------------------------------------------------------------------
(* DashboardLayout: the chat's handleSendMessage, which calls runAnalysis. *)

ProcurementLengthThreshold == 20

\* String.prototype.trim: white space is taken off both ends.
WhiteSpace == {" ", "\t", "\n"}
RECURSIVE trimStart(_)
trimStart(text) ==
    IF text # <<>> /\ Head(text) \in WhiteSpace THEN trimStart(Tail(text)) ELSE text
RECURSIVE trimEnd(_)
trimEnd(text) ==
    IF text # <<>> /\ text[Len(text)] \in WhiteSpace
    THEN trimEnd(SubSeq(text, 1, Len(text) - 1))
    ELSE text
trim(text) == trimEnd(trimStart(text))

\* !chatQuery.trim()
IsBlank(text) == trim(text) = <<>>

\* String.prototype.toLowerCase, on the letters.
UpperCase == <<"A", "B", "C", "D", "E", "F", "G", "H", "I", "J", "K", "L", "M",
               "N", "O", "P", "Q", "R", "S", "T", "U", "V", "W", "X", "Y", "Z">>
LowerCase == <<"a", "b", "c", "d", "e", "f", "g", "h", "i", "j", "k", "l", "m",
               "n", "o", "p", "q", "r", "s", "t", "u", "v", "w", "x", "y", "z">>
toLowerCase(text) ==
    [i \in 1..Len(text) |->
        IF \E k \in 1..26 : UpperCase[k] = text[i]
        THEN LowerCase[CHOOSE k \in 1..26 : UpperCase[k] = text[i]]
        ELSE text[i]]

\* String.prototype.includes
includes(text, word) ==
    \E i \in 0..(Len(text) - Len(word)) : SubSeq(text, i + 1, i + Len(word)) = word

Keywords ==
    {<<"c", "o", "n", "c", "r", "e", "t", "e">>, <<"s", "t", "e", "e", "l">>,
     <<"b", "u", "d", "g", "e", "t">>, <<"q", "u", "o", "t", "e">>}

\* text.toLowerCase().includes(k) for one of the four keywords
HasKeyword(text) == \E k \in Keywords : includes(toLowerCase(text), k)
\* text.length
TextLength(text) == Len(text)

IsProcurementQuery_CaseSensitive(text) ==
    (\E k \in Keywords : includes(text, k)) \/ TextLength(text) > ProcurementLengthThreshold
IsProcurementQuery(text) ==
    HasKeyword(text) \/ TextLength(text) > ProcurementLengthThreshold

\* Ids the conversation backend gives to a conversation it creates.
NewConversationIds == {"c2"}
\* The lists GET /conversations answers with.
ConversationLists == {<<>>, <<"c1">>}

SendRequest(phase, text, convId) ==
    [kind |-> "send", phase |-> phase, text |-> text, convId |-> convId]

\* handleSendMessage up to its first await: nothing for a blank text, else
\* POST /conversations when no conversation is selected, else the POST of the
\* user's message.
handleSendMessageBegin(pend, text, convId) ==
    IF IsBlank(text) THEN pend
    ELSE IF Truthy(convId) THEN Issue(pend, SendRequest("postUser", text, convId))
    ELSE Issue(pend, SendRequest("create", text, JsNull))

SendMessage ==
    /\ mounted
    /\ location.pathname \in ProtectedPaths
    /\ \E text \in ChatTexts :
          /\ IsBlank(text) \/ HasFree(pending)
          /\ Commit(Ctx, NoNav,
                    handleSendMessageBegin(pending, text, currentConversationId),
                    FALSE, "other")

\* How POST /conversations ends: the conversation is created; a status that
\* is no success with a JSON body, which fetch resolves with; a rejection, of
\* fetch or of res.json().
CreateResponses == {"created", "error", "rejected"}

\* POST /conversations settles: the id of the body, undefined in the body of
\* an error status, becomes the current conversation and the user's message
\* is posted; on a rejection the handler returns.
SendCreated(r) ==
    /\ r.kind = "send"
    /\ r.phase = "create"
    /\ \E resp \in CreateResponses, new \in NewConversationIds :
          LET id == IF resp = "created" THEN JsString(new) ELSE JsUndefined
          IN  IF resp # "rejected"
              THEN Commit([Ctx EXCEPT !.currentConversationId = id], NoNav,
                          Issue(Settle(pending, r), SendRequest("postUser", r.text, id)),
                          FALSE, "other")
              ELSE Commit(Ctx, NoNav, Settle(pending, r), FALSE,
                          "other")

\* The POST of the user's message settles: the assistant's reply is posted, the
\* analysing one for a procurement query and the generic one otherwise; when
\* the POST rejected the handler's catch block ends the handler.
handleSendMessageAfterUserPost(pend, r, ok) ==
    IF ~ok THEN Settle(pend, r)
    ELSE IF IsProcurementQuery(r.text)
    THEN Issue(Settle(pend, r), SendRequest("postAi", r.text, r.convId))
    ELSE Issue(Settle(pend, r), SendRequest("postGeneric", r.text, r.convId))

SendUserPosted(r) ==
    /\ r.kind = "send"
    /\ r.phase = "postUser"
    /\ \E ok \in BOOLEAN :
          Commit(Ctx, NoNav, handleSendMessageAfterUserPost(pending, r, ok),
                 FALSE, "other")

\* The POST of the assistant's reply settles: after the analysing reply
\* runAnalysis(text) is called and awaits its request; after the generic
\* reply, and when the POST rejected, the handler ends.
handleSendMessageAfterReply(c, pend, r, ok) ==
    IF ok /\ r.phase = "postAi"
    THEN [ctx |-> runAnalysisBegin(c),
          pending |-> Issue(Settle(pend, r), AnalysisRequest(r.text)),
          turn |-> "analysis_begin"]
    ELSE [ctx |-> c, pending |-> Settle(pend, r), turn |-> "other"]

SendAiPosted(r) ==
    /\ r.kind = "send"
    /\ r.phase \in {"postAi", "postGeneric"}
    /\ \E ok \in BOOLEAN :
          LET done == handleSendMessageAfterReply(Ctx, pending, r, ok)
          IN  Commit(done.ctx, NoNav, done.pending, FALSE, done.turn)

\* fetchConversations after its await: the most recent conversation is
\* selected when the closure saw none selected.
fetchConversationsSettle(c, data, seenConvId) ==
    IF Len(data) > 0 /\ ~Truthy(seenConvId)
    THEN [c EXCEPT !.currentConversationId = JsString(data[1])]
    ELSE c

ConversationsFetched(r) ==
    /\ r.kind = "conversations"
    /\ \E ok \in BOOLEAN, data \in ConversationLists :
          Commit(IF ok THEN fetchConversationsSettle(Ctx, data, r.convId) ELSE Ctx,
                 NoNav, Settle(pending, r), FALSE,
                 "other")

-----------------------------------------------------------------------------

Next ==
    \/ Restart
    \/ ClickLink
    \/ LandingRunAnalysis
    \/ LoginSubmit
    \/ \E r \in InFlight("login") : LoginSettled(r)
    \/ SignupSubmit
    \/ \E r \in InFlight("register") : RegisterSettled(r)
    \/ Logout
    \/ SendMessage
    \/ \E r \in InFlight("send") : SendCreated(r)
    \/ \E r \in InFlight("send") : SendUserPosted(r)
    \/ \E r \in InFlight("send") : SendAiPosted(r)
    \/ \E r \in InFlight("analysis") : AnalysisSettled(r)
    \/ \E r \in InFlight("conversations") : ConversationsFetched(r)

Spec == Init /\ [][Next]_vars

\* Every analysis request is answered at some time, with a response or with a
\* failure: the assumption under which a call completes at all.
FairSpec == Spec /\ WF_vars(\E r \in InFlight("analysis") : AnalysisSettled(r))

-----------------------------------------------------------------------------
(* The budget views: what they show of budget_breakdown.total_cost.        *)

\* budget_breakdown.total_cost of the reports the backend produces.
ReportTotalCost(report) ==
    CASE report.id = "r1" -> 500000000
      [] report.id = "r2" -> 820000
      [] OTHER -> 0

Crore == 10000000
Lakh == 100000

\* (amount / unit).toFixed(2), as the number of hundredths: the nearest
\* hundredth of the quotient.  For a quotient exactly half way between two
\* hundredths the result depends on the quotient's binary representation; the
\* amounts used here have no such quotient.
toFixed2(amount, unit) ==
    LET n == (amount + unit \div 200) \div (unit \div 100)
    IN  [units |-> n \div 100, hundredths |-> n % 100]

\* n.toLocaleString('en-IN'): the digits in groups, the last of three digits
\* and the others of two.
RECURSIVE GroupsOfTwo(_)
GroupsOfTwo(n) ==
    IF n < 100 THEN <<n>> ELSE Append(GroupsOfTwo(n \div 100), n % 100)
toLocaleStringIN(n) ==
    IF n < 1000 THEN <<n>> ELSE Append(GroupsOfTwo(n \div 1000), n % 1000)

Scaled(amount, unit, suffix) ==
    [t |-> "scaled", value |-> toFixed2(amount, unit), suffix |-> suffix]
Grouped(amount) == [t |-> "grouped", groups |-> toLocaleStringIN(amount)]

\* formatCurrency of the BudgetBreakdown component.
formatCurrency_LakhFirst(amount) ==
    IF amount >= Lakh THEN Scaled(amount, Lakh, " L")
    ELSE Grouped(amount)
formatCurrency(amount) ==
    IF amount >= Crore THEN Scaled(amount, Crore, " Cr")
    ELSE IF amount >= Lakh THEN Scaled(amount, Lakh, " L")
    ELSE Grouped(amount)

\* The BudgetBreakdown component's "Total Project Cost".
ComponentTotal(report) == formatCurrency(ReportTotalCost(report))

\* The /budget page's two totals: "Total Project Cost" in the stats grid and
\* "Total" in the middle of the chart.
PageTotalCost(report) == Grouped(ReportTotalCost(report))
PageChartTotal(report) == Scaled(ReportTotalCost(report), Crore, "Cr")

-----------------------------------------------------------------------------
(* The AIAssistant component: a chat of its own over getProcurementReport. *)

\* The longest message list the component is followed to.
MaxMessages == 4

\* What the user types or picks into the input.
AssistantInputs == {TextEmpty, TextBlank, TextOk, TextSteelQuote}
AssistantTabs == {"budget", "materials", "vendors", "schedule"}

ReportRequest(query) == [kind |-> "report", query |-> query]

UserMessage(content) == [role |-> "user", content |-> content, data |-> JsUndefined]
AssistantMessage(report) ==
    [role |-> "assistant", content |-> <<>>, data |-> report]
ErrorMessage == [role |-> "assistant", content |-> <<>>, data |-> JsUndefined]

\* [...messages].reverse().find(m => m.data)?.data
LatestData_First(messages) ==
    LET with == {i \in 1..Len(messages) : Truthy(messages[i].data)}
    IN  IF with = {} THEN JsUndefined
        ELSE messages[CHOOSE i \in with : \A j \in with : i <= j].data
LatestData(messages) ==
    LET with == {i \in 1..Len(messages) : Truthy(messages[i].data)}
    IN  IF with = {} THEN JsUndefined
        ELSE messages[CHOOSE i \in with : \A j \in with : j <= i].data

\* The budget tab hands data.budget_breakdown to the BudgetBreakdown component,
\* which reads budget.total_cost: of a value that is no report it throws.
AssistantRenderThrows(a) ==
    /\ a.hasStarted
    /\ a.activeTab = "budget"
    /\ Truthy(LatestData(a.messages))
    /\ LatestData(a.messages).t # "report"

\* handleSubmit up to its await.
handleSubmit_NoLoadingGuard(a) ==
    IF IsBlank(a.input) THEN a
    ELSE [a EXCEPT !.messages = Append(@, UserMessage(a.input)),
                   !.input = <<>>,
                   !.isLoading = TRUE,
                   !.hasStarted = TRUE,
                   !.pending = Issue(@, ReportRequest(a.input))]
handleSubmit(a) ==
    IF IsBlank(a.input) \/ a.isLoading THEN a
    ELSE [a EXCEPT !.messages = Append(@, UserMessage(a.input)),
                   !.input = <<>>,
                   !.isLoading = TRUE,
                   !.hasStarted = TRUE,
                   !.pending = Issue(@, ReportRequest(a.input))]

\* handleSubmit after its await: the assistant's message with the report and
\* the budget tab, or the error message; finally setIsLoading(false).
handleSubmitSettle(a, r, resp) ==
    LET done == IF resp.t = "resolved"
                THEN [a EXCEPT !.messages = Append(@, AssistantMessage(resp.data)),
                               !.activeTab = "budget"]
                ELSE [a EXCEPT !.messages = Append(@, ErrorMessage)]
    IN  [done EXCEPT !.isLoading = FALSE, !.pending = Settle(@, r)]

\* The component renders what a handler left; a throw while rendering unmounts
\* it.
AssistantCommit(a) ==
    /\ assistant.mounted
    /\ assistant' = [a EXCEPT !.mounted = ~AssistantRenderThrows(a)]
    /\ UNCHANGED <<procurementData, isLoading, error, user, conversations,
                   currentConversationId, localStorage, location, mounted,
                   pending, last, layout, backend, rendered>>

\* onChange of the text area, and the suggestion buttons: setInput.
AssistantSetInput ==
    /\ assistant.mounted
    /\ \E text \in AssistantInputs : AssistantCommit([assistant EXCEPT !.input = text])

\* The tabs of the dashboard, shown once there is data: setActiveTab.
AssistantSetActiveTab ==
    /\ Truthy(LatestData(assistant.messages))
    /\ \E tab \in AssistantTabs : AssistantCommit([assistant EXCEPT !.activeTab = tab])

\* Enter in the text area, or the send button.
AssistantSubmit ==
    /\ Len(assistant.messages) < MaxMessages
    /\ handleSubmit(assistant) = assistant \/ HasFree(assistant.pending)
    /\ AssistantCommit(handleSubmit(assistant))

\* getProcurementReport settles.
AssistantSettled ==
    \E r \in BagToSet(assistant.pending), resp \in AnalysisResponses :
        AssistantCommit(handleSubmitSettle(assistant, r, resp))

AssistantInit ==
    /\ rendered = NoView
    /\ assistant = AIAssistantInitial
    /\ layout = LayoutInitial
    /\ backend = BackendEmpty
    /\ Booted(Boot([k \in StorageKeys |-> Absent], Location("/", NoState)),
              Turn("start", Location("/", NoState)))

AssistantNext ==
    \/ AssistantSetInput
    \/ AssistantSetActiveTab
    \/ AssistantSubmit
    \/ AssistantSettled

\* The component rendered on its own.
AssistantSpec == AssistantInit /\ [][AssistantNext]_vars

-----------------------------------------------------------------------------
(* DashboardLayout: the chat panel with its own state, on one page, and    *)
(* the conversation API behind it.                                         *)

\* The ids the conversation API gives out, in this order.
ConversationIds == <<"c1", "c2">>

AnalysingReply ==
    <<"I'm analyzing your project requirements based on this input. Updating the dashboard...">>
GenericReply ==
    <<"I've logged that note. Is there anything specific you need for the procurement schedule?">>
ErrorReply == <<"Error connecting to server.">>

\* What the user types into the chat panel.
LayoutTexts == {TextBlank, TextOk, TextSteelQuote}

\* A displayed message; conv records for which conversation it was written
\* or loaded, which the code does not keep.
Shown(from, text, conv) == [from |-> from, text |-> text, conv |-> conv]
Stored(conv, sender, text) == [conv |-> conv, sender |-> sender, text |-> text]

\* POST /conversations: the new conversation is the most recent one.
NewId(b) == ConversationIds[Len(b.list) + 1]
CreateConversation(b) == [b EXCEPT !.list = <<NewId(b)>> \o @]
\* POST /conversations/{id}/messages: kept when the conversation exists.
PostMessage(b, conv, sender, text) ==
    IF \E i \in 1..Len(b.list) : JsString(b.list[i]) = conv
    THEN [b EXCEPT !.messages = Append(@, Stored(conv, sender, text))]
    ELSE b
\* GET /conversations/{id}/messages
StoredIn(b, conv) == SelectSeq(b.messages, LAMBDA m : m.conv = conv)

\* The store an earlier session has left.
BackendWithHistory ==
    [list |-> <<"c1">>, messages |-> <<Stored(JsString("c1"), "user", TextOk)>>]

MessagesRequest(convId) == [kind |-> "messages", convId |-> convId]
NewChatRequest(history) == [kind |-> "newChat", history |-> history]
ChatRequest(phase, text, convId, history) ==
    [kind |-> "send", phase |-> phase, text |-> text, convId |-> convId,
     history |-> history]
TimerRequest(convId) == [kind |-> "timer", convId |-> convId]
Answered(r, data) == [kind |-> r.kind, convId |-> r.convId, data |-> data]

\* The state the layout's handlers work on.
LayoutState ==
    [current |-> currentConversationId, layout |-> layout, backend |-> backend,
     pending |-> pending]

\* The effect on [currentConversationId]: fetchMessages for a conversation,
\* setMessages([]) for none.
ConversationEffect(old, st) ==
    IF st.current = old THEN st
    ELSE IF Truthy(st.current)
    THEN [st EXCEPT !.pending = Issue(@, MessagesRequest(st.current))]
    ELSE [st EXCEPT !.layout.messages = <<>>]

\* fetchConversations after its await: setHistory(data), and the selection
\* of the most recent conversation when the closure saw none selected.
fetchConversationsDone(st, r) ==
    LET data == r.data
        selected == fetchConversationsSettle([currentConversationId |-> st.current],
                                             data, r.convId).currentConversationId
    IN  ConversationEffect(st.current,
           [st EXCEPT !.layout.history = [i \in 1..Len(data) |-> JsString(data[i])],
                      !.current = selected,
                      !.pending = Settle(@, r)])

\* fetchMessages after its await: the list is replaced by the stored one.
fetchMessagesDone(st, r) ==
    [st EXCEPT !.layout.messages =
                   [i \in 1..Len(r.data) |->
                       Shown(IF r.data[i].sender = "user" THEN "user" ELSE "ai",
                             r.data[i].text, r.data[i].conv)],
               !.pending = Settle(@, r)]

\* handleNewChat after its await; data.id is undefined in the body of an
\* error status.
handleNewChatDone(st, r, resp) ==
    LET id == IF resp = "created" THEN JsString(NewId(st.backend)) ELSE JsUndefined
    IN  IF resp = "rejected" THEN [st EXCEPT !.pending = Settle(@, r)]
        ELSE ConversationEffect(st.current,
                [st EXCEPT !.layout.history = <<id>> \o r.history,
                           !.current = id,
                           !.backend = IF resp = "created"
                                       THEN CreateConversation(@) ELSE @,
                           !.pending = Settle(@, r)])

\* handleSendMessage up to its first await.
handleSendMessageStart(st, text) ==
    IF IsBlank(text) THEN st
    ELSE IF Truthy(st.current)
    THEN [st EXCEPT !.layout.messages = Append(@, Shown("user", text, st.current)),
                    !.pending = Issue(@, ChatRequest("postUser", text, st.current, <<>>))]
    ELSE [st EXCEPT !.pending =
                       Issue(@, ChatRequest("create", text, st.current,
                                            st.layout.history))]

\* handleSendMessage after POST /conversations: on a rejection it returns;
\* else the id of the body becomes the conversation, the user's message is
\* displayed and posted.  With an undefined id the effect's setMessages([])
\* and the handler's append come in an order that depends on how the renderer
\* batches: cleared tells that the effect came last.
handleSendMessageCreated(st, r, resp, cleared) ==
    LET id == IF resp = "created" THEN JsString(NewId(st.backend)) ELSE JsUndefined
        message == Shown("user", r.text, id)
        next == ConversationEffect(st.current,
                   [st EXCEPT !.layout.history = <<id>> \o r.history,
                              !.current = id,
                              !.backend = IF resp = "created"
                                          THEN CreateConversation(@) ELSE @,
                              !.pending = Issue(Settle(@, r),
                                                ChatRequest("postUser", r.text, id, <<>>))])
    IN  IF resp = "rejected" THEN [st EXCEPT !.pending = Settle(@, r)]
        ELSE IF id # st.current /\ ~Truthy(id)
        THEN [next EXCEPT !.layout.messages = IF cleared THEN <<>> ELSE <<message>>]
        ELSE [next EXCEPT !.layout.messages = Append(st.layout.messages, message)]

\* handleSendMessage after the POST of the user's message.
handleSendMessageUserPosted_NoCatch(st, r, ok) ==
    [st EXCEPT !.backend = PostMessage(@, r.convId, "user", r.text),
               !.pending =
                   Issue(Settle(@, r),
                         ChatRequest(IF IsProcurementQuery(r.text)
                                     THEN "postAi" ELSE "postGeneric",
                                     r.text, r.convId, <<>>))]
handleSendMessageUserPosted(st, r, ok) ==
    IF ~ok
    THEN [st EXCEPT !.layout.messages = Append(@, Shown("ai", ErrorReply, r.convId)),
                    !.pending = Settle(@, r)]
    ELSE [st EXCEPT !.backend = PostMessage(@, r.convId, "user", r.text),
                    !.pending =
                        Issue(Settle(@, r),
                              ChatRequest(IF IsProcurementQuery(r.text)
                                          THEN "postAi" ELSE "postGeneric",
                                          r.text, r.convId, <<>>))]

\* handleSendMessage after the POST of the assistant's reply: the analysing
\* reply is displayed and runAnalysis(text) is awaited; the generic reply is
\* displayed by a timer; a rejection displays the error reply.
handleSendMessageReplyPosted(st, r, ok) ==
    IF ~ok
    THEN [st EXCEPT !.layout.messages = Append(@, Shown("ai", ErrorReply, r.convId)),
                    !.pending = Settle(@, r)]
    ELSE IF r.phase = "postAi"
    THEN [st EXCEPT !.backend = PostMessage(@, r.convId, "ai", AnalysingReply),
                    !.layout.messages = Append(@, Shown("ai", AnalysingReply, r.convId)),
                    !.pending = Issue(Settle(@, r), AnalysisRequest(r.text))]
    ELSE [st EXCEPT !.backend = PostMessage(@, r.convId, "ai", GenericReply),
                    !.pending = Issue(Settle(@, r), TimerRequest(r.convId))]

\* The timer of the generic reply.
GenericReplyShown(st, r) ==
    [st EXCEPT !.layout.messages = Append(@, Shown("ai", GenericReply, r.convId)),
               !.pending = Settle(@, r)]

\* The most messages the store is followed to.
MaxStored == 3

\* What runAnalysis settles with behind the chat panel (representatives).
LayoutAnalysisResponses ==
    {[t |-> "resolved", data |-> ProcurementReport("r1")],
     [t |-> "rejected", message |-> "Network Error"]}

\* Conversations the store can still create, and messages the panel and the
\* store can still take, with what is under way counted in.
CountKind(pend, kind) ==
    BagCardinality([r \in {x \in BagToSet(pend) : x.kind = kind} |-> pend[r]])
CanCreate(st) ==
    LET under == CountKind(st.pending, "newChat") + CountKind(st.pending, "send")
    IN  /\ Len(st.backend.list) + under < Len(ConversationIds)
        /\ Len(st.layout.history) + under < Len(ConversationIds)
CanSend(st) ==
    LET under == 2 * (CountKind(st.pending, "send") + CountKind(st.pending, "timer")
                      + CountKind(st.pending, "analysis") + 1)
    IN  /\ Len(st.layout.messages) + under <= MaxMessages
        /\ Len(st.backend.messages) + under <= MaxStored

\* A turn of the layout: the container renders with the selected
\* conversation, the layout and the store take what the handler left.
LayoutCommit(c, nav, st, quota, turn) ==
    /\ mounted
    /\ BagCardinality(st.pending) <= MaxPending
    /\ Render([c EXCEPT !.currentConversationId = st.current], nav, st.pending,
              quota, turn)
    /\ layout' = st.layout
    /\ backend' = st.backend
    /\ assistant' = assistant
    /\ rendered' = rendered

\* The "New Chat" button.
LayoutNewChat ==
    /\ CanCreate(LayoutState)
    /\ LayoutCommit(Ctx, NoNav,
                    [LayoutState EXCEPT
                        !.pending = Issue(@, NewChatRequest(layout.history))],
                    FALSE, "other")

NewChatSettled(r) ==
    /\ r.kind = "newChat"
    /\ \E resp \in CreateResponses :
          LayoutCommit(Ctx, NoNav, handleNewChatDone(LayoutState, r, resp), FALSE,
                       "other")

\* A click on an entry of the history list.
LayoutSelect ==
    \E i \in 1..Len(layout.history) :
        /\ layout.history[i] # currentConversationId
        /\ LayoutCommit(Ctx, NoNav,
                        ConversationEffect(currentConversationId,
                            [LayoutState EXCEPT !.current = layout.history[i]]),
                        FALSE, "other")

\* Enter in the chat input, or its button.
LayoutSend ==
    \E text \in LayoutTexts :
        /\ \/ IsBlank(text)
           \/ /\ CanSend(LayoutState)
              /\ Truthy(currentConversationId) \/ CanCreate(LayoutState)
        /\ LayoutCommit(Ctx, NoNav, handleSendMessageStart(LayoutState, text), FALSE,
                        "other")

ChatCreated(r) ==
    /\ r.kind = "send"
    /\ r.phase = "create"
    /\ \E resp \in CreateResponses, cleared \in BOOLEAN :
          LayoutCommit(Ctx, NoNav,
                       handleSendMessageCreated(LayoutState, r, resp, cleared), FALSE,
                       IF resp = "rejected" THEN "send_returned" ELSE "other")

ChatUserPosted(r) ==
    /\ r.kind = "send"
    /\ r.phase = "postUser"
    /\ \E ok \in BOOLEAN :
          LayoutCommit(Ctx, NoNav, handleSendMessageUserPosted(LayoutState, r, ok),
                       FALSE, IF ok THEN "other" ELSE "send_failed")

ChatReplyPosted(r) ==
    /\ r.kind = "send"
    /\ r.phase \in {"postAi", "postGeneric"}
    /\ \E ok \in BOOLEAN :
          LayoutCommit(IF ok /\ r.phase = "postAi" THEN runAnalysisBegin(Ctx) ELSE Ctx,
                       NoNav, handleSendMessageReplyPosted(LayoutState, r, ok), FALSE,
                       IF ~ok THEN "send_failed"
                       ELSE IF r.phase = "postAi" THEN "analysis_begin"
                       ELSE "send_done")

ChatTimerFired(r) ==
    /\ r.kind = "timer"
    /\ LayoutCommit(Ctx, NoNav, GenericReplyShown(LayoutState, r), FALSE, "other")

\* runAnalysis settles, and with it the handler that awaited it.
ChatAnalysisSettled(r) ==
    /\ r.kind = "analysis"
    /\ \E resp \in LayoutAnalysisResponses :
          LET done == runAnalysisSettle(Ctx, r.query, resp, FALSE)
          IN  LayoutCommit(done.ctx, done.nav,
                           [LayoutState EXCEPT !.pending = Settle(@, r)], FALSE,
                           "send_done")

\* The store answers a GET; the answer is on its way.
BackendAnswers(r) ==
    /\ r.kind \in {"conversations", "messages"}
    /\ "data" \notin DOMAIN r
    /\ LayoutCommit(Ctx, NoNav,
                    [LayoutState EXCEPT
                        !.pending =
                            Issue(Settle(@, r),
                                  Answered(r, IF r.kind = "conversations"
                                              THEN backend.list
                                              ELSE StoredIn(backend, r.convId)))],
                    FALSE, "other")

ConversationsDelivered(r) ==
    /\ r.kind = "conversations"
    /\ "data" \in DOMAIN r
    /\ \E ok \in BOOLEAN :
          LayoutCommit(Ctx, NoNav,
                       IF ok THEN fetchConversationsDone(LayoutState, r)
                       ELSE [LayoutState EXCEPT !.pending = Settle(@, r)],
                       FALSE, "other")

MessagesDelivered(r) ==
    /\ r.kind = "messages"
    /\ "data" \in DOMAIN r
    /\ \E ok \in BOOLEAN :
          LayoutCommit(Ctx, NoNav,
                       IF ok THEN fetchMessagesDone(LayoutState, r)
                       ELSE [LayoutState EXCEPT !.pending = Settle(@, r)],
                       FALSE, "other")

\* The layout mounted on /budget for a user who is logged in and has no
\* report: its effects have called fetchConversations and setMessages([]).
LayoutInit ==
    /\ rendered = NoView
    /\ assistant = AIAssistantAbsent
    /\ layout = LayoutInitial
    /\ backend \in {BackendEmpty, BackendWithHistory}
    /\ \E u \in Users :
          Booted(Boot([k \in StorageKeys |-> IF k = "user" THEN StoredText(u) ELSE Absent],
                      Location("/budget", NoState)),
                 Turn("start", Location("/budget", NoState)))

LayoutNext ==
    \/ LayoutNewChat
    \/ LayoutSelect
    \/ LayoutSend
    \/ \E r \in BagToSet(pending) : NewChatSettled(r)
    \/ \E r \in BagToSet(pending) : ChatCreated(r)
    \/ \E r \in BagToSet(pending) : ChatUserPosted(r)
    \/ \E r \in BagToSet(pending) : ChatReplyPosted(r)
    \/ \E r \in BagToSet(pending) : ChatTimerFired(r)
    \/ \E r \in BagToSet(pending) : ChatAnalysisSettled(r)
    \/ \E r \in BagToSet(pending) : BackendAnswers(r)
    \/ \E r \in BagToSet(pending) : ConversationsDelivered(r)
    \/ \E r \in BagToSet(pending) : MessagesDelivered(r)

\* The chat panel on its page.
LayoutSpec == LayoutInit /\ [][LayoutNext]_vars

-----------------------------------------------------------------------------
(* View components: what they compute of the report before they render.    *)

JsNumber(n) == [t |-> "number", n |-> n]
JsArray(items) == [t |-> "array", items |-> items]
ArrayIsArray(v) == v.t = "array"

\* MaterialsVendors.  An entry of vendor_recommendations is a material name
\* with its value; the entries come in the order Object.entries gives them.
Entry(materialName, vendors) == [materialName |-> materialName, vendors |-> vendors]
Vendor(vendor, product) == [vendor |-> vendor, product |-> product]

\* allVendors: the vendors of every entry whose value is an array, each with
\* the material's name.
RECURSIVE allVendors(_)
allVendors(entries) ==
    IF entries = <<>> THEN <<>>
    ELSE LET e == Head(entries)
         IN  (IF ArrayIsArray(e.vendors)
              THEN [i \in 1..Len(e.vendors.items) |->
                      [vendor |-> e.vendors.items[i].vendor,
                       product |-> e.vendors.items[i].product,
                       materialName |-> e.materialName]]
              ELSE <<>>)
             \o allVendors(Tail(entries))

\* v.vendor || v.product || ''
VendorKey(v) == OrElse(OrElse(v.vendor, v.product), JsString(""))

\* allVendors.filter(...) with the set of the keys seen so far.
RECURSIVE Filter(_, _)
Filter(all, seen) ==
    IF all = <<>> THEN <<>>
    ELSE LET key == VendorKey(Head(all))
         IN  IF key \in seen THEN Filter(Tail(all), seen)
             ELSE <<Head(all)>> \o Filter(Tail(all), seen \cup {key})
uniqueVendors_Unfiltered(entries) == allVendors(entries)
uniqueVendors(entries) == Filter(allVendors(entries), {})

\* The grid and the count of the header.
MaterialsVendorsView(report) ==
    LET shown == uniqueVendors(report.vendor_recommendations)
    IN  [page |-> "vendors", grid |-> shown, count |-> Len(shown)]

\* MaterialsTable of the table library.
Material(priority, reason, total_cost) ==
    [priority |-> priority, reason |-> reason, total_cost |-> total_cost]

\* materials.some(m => m.priority || m.reason)
hasAIFields(materials) ==
    \E i \in 1..Len(materials) :
        Truthy(OrElse(materials[i].priority, materials[i].reason))

Column(title, dataIndex, key) == [title |-> title, dataIndex |-> dataIndex, key |-> key]
NoColumn == Column(JsUndefined, JsUndefined, JsUndefined)

\* The array literal of the columns, and its .filter(col => col.dataIndex).
columnsArray(materials) ==
    <<Column("Material", JsString("material"), "material"),
      IF hasAIFields(materials)
      THEN Column("Priority", JsString("priority"), "priority") ELSE NoColumn,
      Column("Quantity", JsString("quantity"), "quantity"),
      Column("Unit Cost", JsString("unit_cost"), "unit_cost"),
      Column(IF hasAIFields(materials) THEN "Vendors" ELSE "Total Cost",
             JsUndefined, "total")>>
columns(materials) ==
    SelectSeq(columnsArray(materials), LAMBDA col : Truthy(col.dataIndex))

\* materials.reduce(...) over the total_cost values that are numbers.
RECURSIVE totalCost(_)
totalCost(materials) ==
    IF materials = <<>> THEN 0
    ELSE (IF Head(materials).total_cost.t = "number"
          THEN Head(materials).total_cost.n ELSE 0)
         + totalCost(Tail(materials))

\* The titles of the table's columns and the summary row.
MaterialsTableView(materials) ==
    [page |-> "table",
     titles |-> [i \in 1..Len(columns(materials)) |-> columns(materials)[i].title],
     summary |-> ~hasAIFields(materials),
     total |-> totalCost(materials)]

\* GanttChart.  A position is the quotient of two integers, or what the
\* division by zero gives; the rounding of the floating-point division is
\* left out.
NaN == [k |-> "NaN"]
Infinity == [k |-> "Infinity"]
Quotient(n, d) ==
    IF d # 0 THEN [k |-> "finite", n |-> n, d |-> d]
    ELSE IF n = 0 THEN NaN ELSE Infinity
\* p <= c for an integer c
AtMost(p, c) ==
    /\ p.k = "finite"
    /\ IF p.d > 0 THEN p.n <= c * p.d ELSE p.n >= c * p.d
\* (i * 30 / total_duration) * 100
Percent(i, total_duration) == Quotient(i * 30 * 100, total_duration)

\* The loop of generateMonthMarkers from i on; the label, a formatted date,
\* is left out.
\* if (percent <= 100)
Pushed_Always(percent) == TRUE
Pushed(percent) == AtMost(percent, 100)
RECURSIVE MarkersFrom(_, _)
MarkersFrom(i, schedule) ==
    IF ~(i <= schedule.total_months) THEN <<>>
    ELSE LET percent == Percent(i, schedule.total_duration)
         IN  (IF Pushed(percent) THEN <<[i |-> i, percent |-> percent]>> ELSE <<>>)
             \o MarkersFrom(i + 3, schedule)
generateMonthMarkers(schedule) == MarkersFrom(0, schedule)

GanttChartView(schedule) ==
    [page |-> "gantt", monthMarkers |-> generateMonthMarkers(schedule)]

\* The reports the views are rendered with.
MaxPerMaterial == 2
MaxMaterials == 2
MaxMonths == 7
MaxDuration == 6

SeqsUpTo(S, n) == UNION {[1..k -> S] : k \in 0..n}

\* Vendors with a name, with a product only, with an empty name and no
\* product, and with a name and a product.
Vendors ==
    {Vendor(JsString("A"), JsUndefined), Vendor(JsUndefined, JsString("A")),
     Vendor(JsString(""), JsUndefined), Vendor(JsString("P"), JsString("A"))}
VendorValues == {JsNull} \cup {JsArray(s) : s \in SeqsUpTo(Vendors, MaxPerMaterial)}
MaterialNames == <<"Cement", "Steel">>
VendorRecommendations ==
    UNION {{[i \in 1..k |-> Entry(MaterialNames[i], f[i])] : f \in [1..k -> VendorValues]} :
              k \in 0..Len(MaterialNames)}

Priorities == {JsUndefined, JsString(""), JsString("high")}
Reasons == {JsUndefined, JsString("bulk order")}
TotalCosts == {JsString("N/A"), JsNumber(250000)}
MaterialRequirements ==
    SeqsUpTo({Material(p, r, c) : p \in Priorities, r \in Reasons, c \in TotalCosts},
             MaxMaterials)

\* Durations in days, the degenerate ones included.
Schedules ==
    {[total_months |-> m, total_duration |-> 45 * d] :
        m \in 0..MaxMonths, d \in (-2)..MaxDuration}

ViewReport(vendors, materials, schedule) ==
    [t |-> "report", id |-> "r1", vendor_recommendations |-> vendors,
     material_requirements |-> materials, schedule |-> schedule]
DefaultSchedule == [total_months |-> 6, total_duration |-> 180]
ViewReports ==
    {ViewReport(v, <<>>, DefaultSchedule) : v \in VendorRecommendations}
    \cup {ViewReport(<<>>, m, DefaultSchedule) : m \in MaterialRequirements}
    \cup {ViewReport(<<>>, <<>>, s) : s \in Schedules}

RenderView(v) ==
    /\ mounted
    /\ Truthy(procurementData)
    /\ ~isLoading
    /\ rendered' = v
    /\ UNCHANGED <<procurementData, isLoading, error, user, conversations,
                   currentConversationId, localStorage, location, mounted,
                   pending, last, assistant, layout, backend>>

RenderMaterialsVendors ==
    /\ location.pathname = "/materials"
    /\ RenderView(MaterialsVendorsView(procurementData))
RenderMaterialsTable ==
    /\ procurementData.material_requirements \in MaterialRequirements
    /\ RenderView(MaterialsTableView(procurementData.material_requirements))
RenderGanttChart ==
    /\ procurementData.schedule \in Schedules
    /\ RenderView(GanttChartView(procurementData.schedule))

\* A session with a report on the materials page.
ViewsInit ==
    /\ rendered = NoView
    /\ assistant = AIAssistantAbsent
    /\ layout = LayoutInitial
    /\ backend = BackendEmpty
    /\ \E u \in Users, report \in ViewReports :
          /\ procurementData = report
          /\ isLoading = FALSE
          /\ error = JsNull
          /\ user = u
          /\ conversations = <<>>
          /\ currentConversationId = JsNull
          /\ localStorage = [k \in StorageKeys |->
                                StoredText(IF k = "user" THEN u ELSE report)]
          /\ location = Location("/materials", NoState)
          /\ mounted = TRUE
          /\ pending = EmptyBag
          /\ last = Turn("start", Location("/materials", NoState))

ViewsNext ==
    \/ RenderMaterialsVendors
    \/ RenderMaterialsTable
    \/ RenderGanttChart

ViewsSpec == ViewsInit /\ [][ViewsNext]_vars

-----------------------------------------------------------------------------
(* Claims.                                                                 *)

AnalysisSettledTurns == {"analysis_resolved", "analysis_threw", "analysis_rejected"}

\* C1: a runAnalysis call sets isLoading at its start, the turn in which the
\* call completes, by a response or by a failure, leaves isLoading false, and
\* while every request is answered isLoading never stays true for ever.
C1_LoadingReleased ==
    /\ [][/\ (mounted /\ last'.op = "analysis_begin") => isLoading'
          /\ (mounted /\ last'.op \in AnalysisSettledTurns) => ~isLoading']_vars
    /\ (isLoading ~> ~isLoading)

\* A call has completed by a rejected request: isLoading is false again and
\* the message is set.
C1_Witness ==
    /\ mounted
    /\ last.op = "analysis_rejected"
    /\ ~isLoading
    /\ error # JsNull

\* C2: a runAnalysis call that fails, by a rejected request or by a step that
\* throws, leaves the report in memory and in storage as it was, and leaves a
\* non-empty error message.
C2_FailureKeepsReport ==
    [][(mounted /\ last'.op \in {"analysis_rejected", "analysis_threw"}) =>
          /\ procurementData' = procurementData
          /\ localStorage'["procurementData"] = localStorage["procurementData"]
          /\ error'.t = "string"
          /\ error'.s # ""]_vars

\* C3: a runAnalysis call that succeeds leaves the returned report in memory
\* and its JSON text in storage under procurementData, and a provider
\* constructed from that storage starts with an equal report.
C3_SuccessRoundTrip ==
    /\ [](\A resp \in AnalysisResponses, q \in ChatTexts :
            resp.t = "resolved" =>
               LET done == runAnalysisSettle(Ctx, q, resp, FALSE)
               IN  /\ done.ctx.procurementData = resp.data
                   /\ done.ctx.localStorage["procurementData"] = JSONstringify(resp.data)
                   /\ InitialProcurementData(done.ctx.localStorage) = resp.data)
    /\ [][(mounted /\ last'.op = "analysis_resolved") =>
             /\ procurementData' \in Reports \cup {RawBody}
             /\ localStorage'["procurementData"] = JSONstringify(procurementData')
             /\ InitialProcurementData(localStorage') = procurementData']_vars

\* A call has succeeded with a report while another report was held.
C3_Witness ==
    /\ mounted
    /\ last.op = "analysis_resolved"
    /\ procurementData = ProcurementReport("r2")
    /\ localStorage["procurementData"] = JSONstringify(ProcurementReport("r2"))
    /\ location.pathname = "/budget"

LoggedOut(c) ==
    /\ c.user = JsNull
    /\ c.procurementData = JsNull
    /\ c.conversations = <<>>
    /\ c.currentConversationId = JsNull
    /\ c.localStorage["user"] = Absent
    /\ c.localStorage["procurementData"] = Absent

\* C4: after logout, from any state, user and report are null, the
\* conversation slots are empty and both storage keys are absent; and logout
\* after logout gives the state of a single logout.
C4_LogoutClears ==
    /\ [](LoggedOut(logout(Ctx)) /\ logout(logout(Ctx)) = logout(Ctx))
    /\ [][last'.op = "logout" => LoggedOut(Ctx') /\ logout(Ctx') = Ctx']_vars

\* Logout has acted while an analysis was still awaiting its response.
C4_Witness ==
    /\ last.op = "logout"
    /\ user = JsNull
    /\ localStorage["user"] = Absent
    /\ location.pathname = "/"
    /\ InFlight("analysis") # {}

\* C5: when the auth backend answers with a failure status and {error: m}, or
\* the transport fails with message m, login resolves to {success: false,
\* error: m} and the identity in memory and in storage stays as it was.
C5_LoginFailureKeepsIdentity ==
    /\ [](\A resp \in LoginResponses, quota \in BOOLEAN :
            resp.t # "ok" =>
               /\ login(Ctx, resp, quota).result = [success |-> FALSE, error |-> resp.error]
               /\ login(Ctx, resp, quota).ctx = Ctx)
    /\ [][last'.op = "login_failed" =>
             /\ user' = user
             /\ localStorage' = localStorage
             /\ location' = location]_vars

\* A login has failed and nobody is signed in.
C5_Witness ==
    /\ last.op = "login_failed"
    /\ user = JsNull
    /\ localStorage["user"] = Absent
    /\ location.pathname = "/login"

\* C6: when login succeeds the identity of the response is the user in memory,
\* its JSON text is in storage under user after the same turn, login resolves
\* to {success: true, user: identity}, and the user is present afterwards.
C6_LoginSuccessStoresIdentity ==
    /\ [](\A resp \in LoginResponses :
            resp.t = "ok" =>
               LET done == login(Ctx, resp, FALSE)
               IN  /\ done.ctx.user = resp.user
                   /\ done.ctx.localStorage["user"] = JSONstringify(resp.user)
                   /\ done.result = [success |-> TRUE, user |-> resp.user]
                   /\ Truthy(done.ctx.user))
    /\ [][(mounted /\ last'.op = "login_ok") =>
             /\ user' \in Users
             /\ localStorage'["user"] = JSONstringify(user')
             /\ InitialUser(localStorage') = user']_vars

\* A login has succeeded from a state without a user.
C6_Witness ==
    /\ mounted
    /\ last.op = "login_ok"
    /\ user = UserIdentity("u1")
    /\ localStorage["user"] = JSONstringify(UserIdentity("u1"))
    /\ procurementData = JsNull

C8_GuardedViews ==
    mounted =>
       /\ location.pathname \in ProtectedPaths => Truthy(user)
       /\ (last.nav.pathname \in ProtectedPaths /\ ~Truthy(user)) =>
             location = Location("/login", FromState(last.nav))

\* The landing page has asked for /budget with a query while nobody was signed
\* in, and the login view carries that location.
C8_Witness ==
    /\ mounted
    /\ user = JsNull
    /\ last.nav = Location("/budget", QueryState(TextSteelQuote))
    /\ location = Location("/login", FromState(Location("/budget", QueryState(TextSteelQuote))))

RequestedLocations ==
    {Location(p, s) : p \in ProtectedPaths,
                      s \in {NoState} \cup {QueryState(q) : q \in LandingQueries}}

\* C9: the login view the guard shows for a dashboard location L makes a
\* successful login navigate to L with L's state; a login page entered without
\* an origin navigates to /budget; a failed login does not navigate.  The
\* origin is the one the login page held when the form was submitted.
C9_LoginResumesOrigin ==
    /\ [](\A L \in RequestedLocations, u \in Users :
            /\ LoginNavigation(Success(u), ProtectedRoute(L, JsNull).state) = L
            /\ LoginNavigation(Success(u), NoState) = Location("/budget", NoState)
            /\ \A m \in AuthBusinessErrors \cup TransportMessages :
                  LoginNavigation(Failure(m), ProtectedRoute(L, JsNull).state) = NoNav)
    /\ [][\A r \in {x \in BagToSet(pending') : x.kind = "login"} :
             CopiesIn(r, pending') > CopiesIn(r, pending) =>
                location.pathname = "/login" /\ r.state = location.state]_vars
    /\ [][last'.op = "login_ok" =>
             \E r \in InFlight("login") :
                /\ Settle(pending, r) \sqsubseteq pending'
                /\ last'.nav = IF r.state.t = "from"
                               THEN Location(r.state.pathname, r.state.state)
                               ELSE Location("/budget", NoState)
                /\ location' = last'.nav]_vars
    /\ [][last'.op \in {"login_failed", "login_threw"} =>
             last'.nav = NoNav /\ location' = location]_vars

\* A login submitted on the login view shown for /schedule has succeeded and
\* the router is at /schedule.
C9_Witness ==
    /\ mounted
    /\ last.op = "login_ok"
    /\ last.nav = Location("/schedule", NoState)
    /\ location = Location("/schedule", NoState)
    /\ Truthy(user)

StartReadsStorage ==
    /\ Truthy(user) <=> localStorage["user"] # Absent
    /\ Truthy(procurementData) <=> localStorage["procurementData"] # Absent
    /\ \A u \in Users : localStorage["user"] = StoredText(u) => user = u
    /\ \A r \in Reports : localStorage["procurementData"] = StoredText(r) => procurementData = r
    /\ ~isLoading
    /\ error = JsNull

\* C10 as stated: after a start the session is the one storage describes,
\* isLoading is false, error is null and no request has been issued.
C10_StartIssuesNothing ==
    (mounted /\ last.op = "start") =>
       /\ StartReadsStorage
       /\ pending = EmptyBag

\* C10: after a start the session is the one storage describes, isLoading is
\* false and error is null; no auth or analysis request has been issued, and
\* the one request of a start is the layout's fetch of the conversations,
\* issued exactly when a user is stored and a dashboard view is shown.
C10_StartFromStorage ==
    (mounted /\ last.op = "start") =>
       /\ StartReadsStorage
       /\ pending = IF Truthy(user) /\ location.pathname \in ProtectedPaths
                    THEN SetToBag({FetchConversationsRequest(JsNull)})
                    ELSE EmptyBag

\* A start at /budget with a stored user and a stored report.
C10_Witness ==
    /\ mounted
    /\ last.op = "start"
    /\ user = UserIdentity("u1")
    /\ procurementData = ProcurementReport("r1")
    /\ location.pathname = "/budget"
    /\ pending = SetToBag({FetchConversationsRequest(JsNull)})

\* C11: isLoading is true only while an analysis request is awaiting its
\* response.
C11_LoadingOnlyInFlight ==
    isLoading => InFlight("analysis") # {}

\* A runAnalysis call has just started: isLoading is true and its request is
\* in flight.
C11_Witness ==
    /\ mounted
    /\ last.op = "analysis_begin"
    /\ isLoading
    /\ InFlight("analysis") = {AnalysisRequest(TextSteelQuote)}

\* The number of requests of a kind in a bag of requests.
CountOf(pend, kind) ==
    BagCardinality([r \in {x \in BagToSet(pend) : x.kind = kind} |-> pend[r]])

ResolvedResponses == {resp \in AnalysisResponses : resp.t = "resolved"}

\* C12: a runAnalysis call started while another is in flight adds a request
\* of its own, and of two calls that both succeed the report in memory and in
\* storage is that of the response handled last, in whichever order the two
\* responses arrive.
C12_LastResponseWins ==
    /\ [][last'.op = "analysis_begin" =>
             /\ CountOf(pending', "analysis") = CountOf(pending, "analysis") + 1
             /\ \E q \in ChatTexts :
                   CopiesIn(AnalysisRequest(q), pending')
                      = CopiesIn(AnalysisRequest(q), pending) + 1]_vars
    /\ [](\A first \in ResolvedResponses, second \in ResolvedResponses, q \in ChatTexts :
            LET one == runAnalysisSettle(Ctx, q, first, FALSE).ctx
                two == runAnalysisSettle(one, q, second, FALSE).ctx
            IN  /\ two.procurementData = second.data
                /\ two.localStorage["procurementData"] = JSONstringify(second.data)
                /\ ~two.isLoading)
    /\ [][(mounted /\ last'.op = "analysis_resolved"
                   /\ CountOf(pending, "analysis") = 2) =>
             /\ CountOf(pending', "analysis") = 1
             /\ localStorage'["procurementData"] = JSONstringify(procurementData')]_vars

\* Two calls were in flight together; one has succeeded with r1 and the other
\* is still awaiting its response.
C12_Witness ==
    /\ mounted
    /\ last.op = "analysis_resolved"
    /\ procurementData = ProcurementReport("r1")
    /\ localStorage["procurementData"] = JSONstringify(ProcurementReport("r1"))
    /\ CountOf(pending, "analysis") = 1

\* C13 as stated: after every turn the user in memory is the one stored under
\* user and the report in memory is the one stored under procurementData, an
\* absent key counting as null.
C13_MemoryEqualsStorage ==
    mounted =>
       /\ user = InitialUser(localStorage)
       /\ procurementData = InitialProcurementData(localStorage)

\* The analysis request's three failure conditions as analyzeProcurement sees
\* them: the two rejections of the request, and a 2xx body that is not JSON.
AnalysisFailureConditions ==
    {resp \in AnalysisResponses : resp.t = "rejected"}
    \cup {[t |-> "resolved", data |-> RawBody]}

EndsAsFailure(done) ==
    /\ done.ctx.error.t = "string"
    /\ done.ctx.error.s # ""
    /\ done.ctx.procurementData = procurementData
    /\ done.ctx.localStorage = localStorage
    /\ done.nav = NoNav

\* C14 as stated: network failure, non-success status and malformed body each
\* end runAnalysis with error set, the report not replaced, nothing written to
\* storage and no navigation.
C14_FailuresUniform ==
    \A resp \in AnalysisFailureConditions, q \in ChatTexts :
       EndsAsFailure(runAnalysisSettle(Ctx, q, resp, FALSE))

\* C15 as stated: once a runAnalysis call has succeeded the user is present,
\* the report is present, error is null and /budget has been asked for with
\* the query.
C15_SuccessGivesWithReport ==
    [][(mounted /\ last'.op = "analysis_resolved") =>
          /\ Truthy(user')
          /\ Truthy(procurementData')
          /\ error' = JsNull
          /\ last'.nav.pathname = "/budget"
          /\ last'.nav.state.t = "query"]_vars

\* C15: a runAnalysis call clears error when it starts; when it succeeds the
\* report is the returned one, in memory and in storage, /budget is asked for
\* with the call's query, and error is left as it is.  Between the two only a
\* failure of another call sets error, so error is null after a success
\* unless another call failed meanwhile; and the results view is shown when
\* the user is still present, the login view when a logout came in between.
C15_SuccessKeepsErrorAndUser ==
    /\ [][(mounted /\ last'.op = "analysis_begin") => error' = JsNull]_vars
    /\ [][error' # error =>
             last'.op \in {"start", "analysis_begin", "analysis_rejected", "analysis_threw"}]_vars
    /\ [][(mounted /\ last'.op = "analysis_resolved") =>
             /\ Truthy(procurementData')
             /\ localStorage'["procurementData"] = JSONstringify(procurementData')
             /\ error' = error
             /\ user' = user
             /\ \E r \in InFlight("analysis") :
                   /\ Settle(pending, r) \sqsubseteq pending'
                   /\ last'.nav = Location("/budget", QueryState(r.query))
             /\ location' = IF Truthy(user)
                            THEN last'.nav
                            ELSE Location("/login", FromState(last'.nav))]_vars

\* A call has succeeded with the user present and no failure in between: the
\* session has a user and a report, no error, and the results view is shown.
C15_Witness ==
    /\ mounted
    /\ last.op = "analysis_resolved"
    /\ user = UserIdentity("u1")
    /\ procurementData = ProcurementReport("r1")
    /\ error = JsNull
    /\ location = Location("/budget", QueryState(TextSteelQuote))
    /\ InFlight("analysis") = {}

\* The two shapes an auth operation resolves to.
IsAuthResult(result) ==
    IF result.success
    THEN DOMAIN result \subseteq {"success", "user"}
    ELSE /\ DOMAIN result = {"success", "error"}
         /\ result.error # ""

\* C16: whatever the backend answers, and also when a write to storage throws,
\* login and register resolve to {success: true, ...} or {success: false,
\* error}, and the promise of runAnalysis is fulfilled with a failure recorded
\* in error only.
C16_NoRawException ==
    /\ \A resp \in LoginResponses, quota \in BOOLEAN :
          LET result == login(Ctx, resp, quota).result
          IN  /\ IsAuthResult(result)
              /\ resp.t # "ok" => result = Failure(resp.error)
    /\ \A resp \in RegisterResponses :
          LET result == register(Ctx, resp).result
          IN  /\ IsAuthResult(result)
              /\ result.success <=> resp.t = "ok"
    /\ \A resp \in AnalysisResponses, q \in ChatTexts, quota \in BOOLEAN :
          LET done == runAnalysisSettle(Ctx, q, resp, quota)
          IN  /\ done.promise = "fulfilled"
              /\ done.nav = NoNav => /\ done.ctx.error.t = "string"
                                      /\ done.ctx.error.s # ""

\* The write to storage has thrown inside runAnalysis and the exception has
\* become the error field.
C16_Witness ==
    /\ last.op = "analysis_threw"
    /\ error = JsString(QuotaMessage)
    /\ ~isLoading

\* Amounts on both sides of the two thresholds.
Amounts == {0, 999, 99999, 100000, 820000, 9999999, 10000000, 123456789, 500000000}

\* The claimed rule: what is shown for the amount is amount / 10,000,000 with
\* the suffix Cr from 10,000,000 on, amount / 100,000 with the suffix L from
\* 100,000 on, and else the amount itself.
FollowsRule(shown, amount) ==
    IF amount >= 10000000
    THEN /\ shown.t = "scaled"
         /\ shown.suffix \in {" Cr", "Cr"}
         /\ 100 * shown.value.units + shown.value.hundredths = (amount + 50000) \div 100000
    ELSE IF amount >= 100000
    THEN /\ shown.t = "scaled"
         /\ shown.suffix \in {" L", "L"}
         /\ 100 * shown.value.units + shown.value.hundredths = (amount + 500) \div 1000
    ELSE /\ shown.t = "grouped"
         /\ shown.groups = toLocaleStringIN(amount)

ShowsReport == mounted /\ ~isLoading /\ procurementData \in Reports

\* C17 as stated: every budget view, the component and the /budget page,
\* shows a total that follows the rule.
C17_TotalFollowsRule ==
    /\ \A a \in Amounts : FollowsRule(formatCurrency(a), a)
    /\ ShowsReport =>
          /\ FollowsRule(ComponentTotal(procurementData), ReportTotalCost(procurementData))
          /\ (location.pathname = "/budget" =>
                \E shown \in {PageTotalCost(procurementData), PageChartTotal(procurementData)} :
                   FollowsRule(shown, ReportTotalCost(procurementData)))

\* C17: formatCurrency of the BudgetBreakdown component follows the rule, and
\* shows 50.00 Cr for 500000000.  The /budget page does not use it: it shows
\* the total in en-IN digit groups and, in the chart, the total divided by
\* 10,000,000 with two decimals and the suffix Cr whatever the amount, which
\* is the rule's text from 10,000,000 on only.
C17_ComponentFollowsRule ==
    /\ \A a \in Amounts : FollowsRule(formatCurrency(a), a)
    /\ formatCurrency(500000000) = [t |-> "scaled", suffix |-> " Cr",
                                    value |-> [units |-> 50, hundredths |-> 0]]
    /\ ShowsReport =>
          /\ FollowsRule(ComponentTotal(procurementData), ReportTotalCost(procurementData))
          /\ (location.pathname = "/budget" =>
                LET total == ReportTotalCost(procurementData)
                IN  /\ PageTotalCost(procurementData).groups = toLocaleStringIN(total)
                    /\ PageChartTotal(procurementData).suffix = "Cr"
                    /\ PageChartTotal(procurementData).value = toFixed2(total, 10000000)
                    /\ FollowsRule(PageChartTotal(procurementData), total)
                          <=> total >= 10000000)

\* A call has succeeded with the report whose total is 820000 and the /budget
\* page shows it: 8,20,000 and 0.08Cr on the page, 8.20 L in the component.
C17_Witness ==
    /\ ShowsReport
    /\ last.op = "analysis_resolved"
    /\ location.pathname = "/budget"
    /\ procurementData = ProcurementReport("r2")
    /\ PageTotalCost(procurementData).groups = <<8, 20, 0>>
    /\ PageChartTotal(procurementData).value = [units |-> 0, hundredths |-> 8]
    /\ ComponentTotal(procurementData) = [t |-> "scaled", suffix |-> " L",
                                          value |-> [units |-> 8, hundredths |-> 20]]

PageValues == {JsNull} \cup Reports \cup {RawBody}

ClassifierTexts ==
    {TextBlank, TextOk, TextSteelQuote, TextLong, TextEmpty, TextTab, TextUpperSteel,
     TextTwenty, TextBudgeting, TextConcrete, TextQuote, TextPadded}
ExpectedBlank == {TextBlank, TextEmpty, TextTab}
ExpectedProcurement ==
    {TextSteelQuote, TextLong, TextUpperSteel, TextBudgeting, TextConcrete, TextQuote}

PhaseCount(pend, phase) ==
    BagCardinality([r \in {x \in BagToSet(pend) : x.kind = "send" /\ x.phase = phase}
                      |-> pend[r]])

\* What holds of handleSendMessage in both readings: the classification, a
\* blank text issuing nothing, and a runAnalysis request appearing only as one
\* request, for a text that is not blank and procurement-like, in the turn
\* that settles the POST of the analysing reply; the generic reply is posted
\* for the other texts only.
ClassifierAgrees ==
    \A t \in ClassifierTexts :
       /\ IsBlank(t) <=> t \in ExpectedBlank
       /\ IsProcurementQuery(t) <=> t \in ExpectedProcurement

SendMessageRules ==
    /\ [](/\ ClassifierAgrees
          /\ \A t \in ExpectedBlank :
                handleSendMessageBegin(pending, t, currentConversationId) = pending)
    /\ [][\A q \in ChatTexts :
             CopiesIn(AnalysisRequest(q), pending') > CopiesIn(AnalysisRequest(q), pending) =>
                /\ CountOf(pending', "analysis") = CountOf(pending, "analysis") + 1
                /\ ~IsBlank(q)
                /\ IsProcurementQuery(q)
                /\ PhaseCount(pending', "postAi") = PhaseCount(pending, "postAi") - 1
                /\ \E r \in InFlight("send") :
                      /\ r.phase = "postAi"
                      /\ r.text = q
                      /\ CopiesIn(r, pending') = CopiesIn(r, pending) - 1]_vars
    /\ [][\A r \in {x \in BagToSet(pending') : x.kind = "send"} :
             CopiesIn(r, pending') > CopiesIn(r, pending) =>
                /\ ~IsBlank(r.text)
                /\ r.phase = "postAi" => IsProcurementQuery(r.text)
                /\ r.phase = "postGeneric" => ~IsProcurementQuery(r.text)]_vars

\* C19 as stated: besides, every procurement-like message whose POST did not
\* reject leads to runAnalysis: the turn that ends the wait for the analysing
\* reply's POST issues the analysis request.
C19_AnalysisIffProcurement ==
    /\ SendMessageRules
    /\ [][(last'.op # "start"
             /\ PhaseCount(pending', "postAi") < PhaseCount(pending, "postAi")) =>
             CountOf(pending', "analysis") = CountOf(pending, "analysis") + 1]_vars

\* C19: besides, runAnalysis is called, once, exactly when the POST of the
\* analysing reply did not reject either; when it rejected the handler ends
\* without calling runAnalysis and without changing the container's state.
C19_AnalysisAfterReplyPosted ==
    /\ SendMessageRules
    /\ [](\A r \in InFlight("send") :
            r.phase = "postAi" =>
               LET went == handleSendMessageAfterReply(Ctx, pending, r, TRUE)
                   failed == handleSendMessageAfterReply(Ctx, pending, r, FALSE)
               IN  /\ went.pending = Issue(Settle(pending, r), AnalysisRequest(r.text))
                   /\ went.ctx = runAnalysisBegin(Ctx)
                   /\ failed.pending = Settle(pending, r)
                   /\ failed.ctx = Ctx)
    /\ [][(last'.op # "start"
             /\ PhaseCount(pending', "postAi") < PhaseCount(pending, "postAi")) =>
             \/ last'.op = "analysis_begin"
             \/ CountOf(pending', "analysis") = CountOf(pending, "analysis")]_vars

\* A message with two of the four words, sent with no conversation selected,
\* has led to runAnalysis in the conversation created for it.
C19_Witness ==
    /\ mounted
    /\ last.op = "analysis_begin"
    /\ currentConversationId = JsString("c2")
    /\ InFlight("analysis") = {AnalysisRequest(TextSteelQuote)}
    /\ InFlight("send") = {}
    /\ IsProcurementQuery(TextSteelQuote)

\* C20: in the AIAssistant component handleSubmit issues nothing and changes
\* nothing when the input is blank or while isLoading is true; at most one
\* getProcurementReport request is in flight at any time, isLoading is true
\* while one is, and isLoading is false after each request settles.
C20_OneReportInFlight ==
    /\ [](/\ BagCardinality(assistant.pending) <= 1
          /\ assistant.isLoading <=> assistant.pending # EmptyBag
          /\ \A text \in AssistantInputs, loading \in BOOLEAN :
                LET a == [assistant EXCEPT !.input = text, !.isLoading = loading]
                IN  (IsBlank(text) \/ loading) => handleSubmit(a) = a)
    /\ [][BagCardinality(assistant.pending') > BagCardinality(assistant.pending) =>
             /\ ~assistant.isLoading
             /\ ~IsBlank(assistant.input)
             /\ assistant.pending' = Issue(assistant.pending, ReportRequest(assistant.input))]_vars
    /\ [][BagCardinality(assistant.pending') < BagCardinality(assistant.pending) =>
             ~assistant.isLoading']_vars

\* The second request is in flight after the first one settled, and the user
\* has typed the next text meanwhile: submitting it now does nothing.
C20_Witness ==
    /\ assistant.mounted
    /\ Len(assistant.messages) = 3
    /\ assistant.isLoading
    /\ assistant.input = TextSteelQuote
    /\ handleSubmit(assistant) = assistant

\* The data of the assistant's messages, oldest first: what the analyses that
\* succeeded have returned.
RECURSIVE SucceededData(_)
SucceededData(messages) ==
    IF messages = <<>> THEN <<>>
    ELSE LET m == messages[Len(messages)]
             before == SucceededData(SubSeq(messages, 1, Len(messages) - 1))
         IN  IF m.role = "assistant" /\ m.data # JsUndefined
             THEN Append(before, m.data)
             ELSE before

\* C21: in the AIAssistant component the data of the results panel is the
\* report of the most recent analysis that succeeded; an analysis that fails
\* appends one assistant message without data and leaves the shown report as it
\* was; hasData is false exactly when no analysis has succeeded yet.
C21_LatestReportShown ==
    /\ [](LET got == SucceededData(assistant.messages)
              shown == LatestData(assistant.messages)
          IN  /\ Truthy(shown) <=> got # <<>>
              /\ got # <<>> => shown = got[Len(got)]
              /\ \A r \in BagToSet(assistant.pending), resp \in AnalysisResponses :
                    LET done == handleSubmitSettle(assistant, r, resp)
                    IN  IF resp.t = "resolved"
                        THEN /\ LatestData(done.messages) = resp.data
                             /\ done.messages =
                                   Append(assistant.messages, AssistantMessage(resp.data))
                        ELSE /\ LatestData(done.messages) = shown
                             /\ done.messages = Append(assistant.messages, ErrorMessage)
                             /\ ErrorMessage.data = JsUndefined)
    /\ [][LatestData(assistant.messages') # LatestData(assistant.messages) =>
             /\ BagCardinality(assistant.pending') < BagCardinality(assistant.pending)
             /\ assistant.messages' =
                   Append(assistant.messages,
                          AssistantMessage(LatestData(assistant.messages')))]_vars

\* A report is shown, a later analysis has failed, and the report is still the
\* one shown.
C21_Witness ==
    /\ assistant.mounted
    /\ Len(assistant.messages) = 4
    /\ assistant.messages[2] = AssistantMessage(ProcurementReport("r2"))
    /\ assistant.messages[4] = ErrorMessage
    /\ LatestData(assistant.messages) = ProcurementReport("r2")
    /\ assistant.pending = EmptyBag

\* C22: no turn of the running page stores or shows a report while the
\* identity is absent: with no identity after the turn, the report in memory
\* and the text under procurementData are absent or what they were absent
\* before, so the response of an analysis issued before a logout is dropped.
C22_NoReportWithoutIdentity ==
    [][(mounted /\ last'.op # "start" /\ ~Truthy(user')) =>
          /\ procurementData = JsNull => procurementData' = JsNull
          /\ localStorage["procurementData"] = Absent =>
                localStorage'["procurementData"] = Absent]_vars

\* C23: in every state of the mounted page in which a runAnalysis request is
\* in flight, isLoading is true.
C23_InFlightIsLoading ==
    (mounted /\ InFlight("analysis") # {}) => isLoading

\* The requests of handleSendMessage in flight, and the requests a step adds.
ChatInFlight(phases) ==
    {r \in BagToSet(pending) : r.kind = "send" /\ r.phase \in phases}
MessagePosts == {"postUser", "postAi", "postGeneric"}
AfterAwait(r, ok) ==
    IF r.phase = "postUser" THEN handleSendMessageUserPosted(LayoutState, r, ok)
    ELSE handleSendMessageReplyPosted(LayoutState, r, ok)

\* The order of the steps after the conversation is there, and the end of
\* the handler when a POST of a message rejects: the reply is posted only in
\* the turn that ends the wait for the POST of the user's message, which the
\* store has taken by then; runAnalysis is called only in the turn that ends
\* the wait for the POST of the analysing reply; after a rejected POST one
\* error message is appended and nothing else happens.
SendOrder ==
    /\ [](\A r \in ChatInFlight(MessagePosts) :
            LET failed == AfterAwait(r, FALSE)
            IN  /\ failed.layout.messages =
                      Append(layout.messages, Shown("ai", ErrorReply, r.convId))
                /\ failed.pending = Settle(pending, r)
                /\ failed.backend = backend
                /\ failed.current = currentConversationId)
    /\ [][\A r \in BagToSet(pending') :
             (r.kind = "send" /\ r.phase \in {"postAi", "postGeneric"}
                 /\ CopiesIn(r, pending') > CopiesIn(r, pending)) =>
                LET u == ChatRequest("postUser", r.text, r.convId, <<>>)
                IN  /\ CopiesIn(u, pending') = CopiesIn(u, pending) - 1
                    /\ PostMessage(backend, r.convId, "user", r.text) = backend']_vars
    /\ [][\A q \in LayoutTexts :
             CopiesIn(AnalysisRequest(q), pending') > CopiesIn(AnalysisRequest(q), pending) =>
                \E r \in ChatInFlight({"postAi"}) :
                   /\ r.text = q
                   /\ CopiesIn(r, pending') = CopiesIn(r, pending) - 1
                   /\ PostMessage(backend, r.convId, "ai", AnalysingReply) = backend']_vars

ListArrives ==
    CountKind(pending', "conversations") < CountKind(pending, "conversations")

\* Conversations that were created in this session for certain: the most
\* recent one when the store holds more than an earlier session has left.
CreatedHere ==
    IF Len(backend.list) > Len(BackendWithHistory.list)
    THEN {JsString(backend.list[1])} ELSE {}
InHistory(h) == {h[i] : i \in 1..Len(h)}

\* C25 (selection): when the conversation list arrives while a conversation
\* is selected, currentConversationId is left as it is.
C25_SelectionKept ==
    [][(ListArrives /\ Truthy(currentConversationId)) =>
          currentConversationId' = currentConversationId]_vars

\* C25 (history): after the conversation list has arrived, every conversation
\* created in this session is in the history list.
C25_CreatedStayListed ==
    [][ListArrives => CreatedHere \subseteq InHistory(layout'.history)]_vars

\* C25: fetchConversations selects the most recent conversation only when
\* none is selected; with a conversation selected or created by the time the
\* list arrives the selection is unchanged, and every conversation created in
\* this session is in the history list afterwards.
C25_ListKeepsSelectionAndHistory ==
    [][(ListArrives =>
          /\ Truthy(currentConversationId) =>
                currentConversationId' = currentConversationId
          /\ CreatedHere \subseteq InHistory(layout'.history))]_vars

\* How often a sequence holds an element that satisfies a test.
Occurrences(seq, Test(_)) == Len(SelectSeq(seq, Test))

\* The sends whose handler completes without error in this step on the
\* generic path: the POST of the generic reply has resolved.
Completing ==
    {r \in ChatInFlight({"postGeneric"}) :
        /\ last'.op = "send_done"
        /\ CopiesIn(r, pending') < CopiesIn(r, pending)}

\* The user's message of a send as the panel displays it.
IsUserMessageOf(r, m) == m.from = "user" /\ m.text = r.text /\ m.conv = r.convId

\* The message of the send was sent once to its conversation: the store
\* holds it once, no other send of it is under way and no failed send is on
\* display.
SentOnce(r) ==
    /\ Occurrences(backend'.messages,
                   LAMBDA m : m = Stored(r.convId, "user", r.text)) = 1
    /\ \A q \in BagToSet(pending') :
          ~(q.kind = "send" /\ q.text = r.text /\ q.convId = r.convId)
    /\ \A i \in 1..Len(layout'.messages) : layout'.messages[i].text # ErrorReply

\* C26 (the message): when handleSendMessage completes without error in the
\* conversation that is still the current one, the displayed list holds the
\* user's message, and holds it once when it was sent once.
C26_SentMessageShown ==
    [][\A r \in Completing :
          (Truthy(r.convId) /\ currentConversationId' = r.convId) =>
             /\ Occurrences(layout'.messages, LAMBDA m : IsUserMessageOf(r, m)) >= 1
             /\ SentOnce(r) =>
                   Occurrences(layout'.messages, LAMBDA m : IsUserMessageOf(r, m)) = 1]_vars

\* The delayed replies of sends to a conversation that the timer appends in
\* this step.
Appended ==
    {r \in InFlight("timer") :
        Truthy(r.convId) /\ CopiesIn(r, pending') < CopiesIn(r, pending)}

\* C26 (the conversation): the delayed reply of a completed send is appended
\* to the list of the conversation it was written for, so that the list holds
\* messages of the current conversation only.
C26_DelayedReplyInItsConversation ==
    [][\A r \in Appended :
          /\ r.convId = currentConversationId'
          /\ layout'.messages[Len(layout'.messages)].conv = currentConversationId']_vars

\* C26: after handleSendMessage has completed without error for a message
\* that is not blank, the displayed list holds that user message exactly once
\* and messages of the current conversation only, also when the send created
\* the conversation and the change of currentConversationId started a
\* fetchMessages that replaces the list, and also when the conversation is
\* switched before the delayed reply is appended.
C26_SendLeavesListConsistent ==
    [][/\ \A r \in Completing :
             (Truthy(r.convId) /\ currentConversationId' = r.convId) =>
                /\ Occurrences(layout'.messages,
                               LAMBDA m : IsUserMessageOf(r, m)) >= 1
                /\ SentOnce(r) =>
                      Occurrences(layout'.messages,
                                  LAMBDA m : IsUserMessageOf(r, m)) = 1
       /\ \A r \in Appended :
             layout'.messages[Len(layout'.messages)].conv = currentConversationId']_vars

\* The key the claim gives a vendor: its vendor name, else its product, else
\* the empty string.
KeyOf(v) ==
    IF Truthy(v.vendor) THEN v.vendor
    ELSE IF Truthy(v.product) THEN v.product
    ELSE JsString("")
KeysOf(seq) == {KeyOf(seq[i]) : i \in 1..Len(seq)}
\* The places of a sequence that hold the first vendor of their key.
FirstOfKey(seq) ==
    {i \in 1..Len(seq) : \A j \in 1..(i - 1) : KeyOf(seq[j]) # KeyOf(seq[i])}

\* C27: the vendor grid of MaterialsVendors is the flattening of
\* vendor_recommendations in material order without duplicates: no two
\* entries of the grid have the same key, every entry is the first of the
\* flattening with its key, the entries keep the order of the flattening,
\* every key of the input is in the grid, and the count displayed is the
\* number of distinct keys.
C27_GridIsFirstOfEachKey ==
    rendered.page = "vendors" =>
       LET flat == allVendors(procurementData.vendor_recommendations)
           grid == rendered.grid
       IN  /\ \A a, b \in 1..Len(grid) : a # b => KeyOf(grid[a]) # KeyOf(grid[b])
           /\ \E at \in [1..Len(grid) -> FirstOfKey(flat)] :
                 /\ \A k \in 1..Len(grid) : grid[k] = flat[at[k]]
                 /\ \A k, l \in 1..Len(grid) : k < l => at[k] < at[l]
           /\ KeysOf(grid) = KeysOf(flat)
           /\ rendered.count = Cardinality(KeysOf(flat))

\* The grid of recommendations for two materials in which a vendor named
\* like an earlier vendor and a product named like it were dropped, and a
\* vendor of the second material was kept after one of the first.
C27_Witness ==
    /\ rendered.page = "vendors"
    /\ Len(procurementData.vendor_recommendations) = 2
    /\ Len(allVendors(procurementData.vendor_recommendations)) = 4
    /\ rendered.count = 2
    /\ rendered.grid[1].materialName # rendered.grid[2].materialName
    /\ \E i \in 1..4 :
          LET v == allVendors(procurementData.vendor_recommendations)[i]
          IN  ~Truthy(v.vendor) /\ KeyOf(v) = JsString("A")
    /\ \E i \in 1..4 :
          allVendors(procurementData.vendor_recommendations)[i].vendor = JsString("A")

\* The sum of the total_cost values at the places S of a material list.
RECURSIVE SumOfCosts(_, _)
SumOfCosts(materials, S) ==
    IF S = {} THEN 0
    ELSE LET i == CHOOSE i \in S : TRUE
         IN  materials[i].total_cost.n + SumOfCosts(materials, S \ {i})

\* C28: the column list of the table-library MaterialsTable holds Material,
\* Quantity and Unit Cost and ends with a column titled Vendors when some
\* material has a priority or a reason and Total Cost otherwise; Priority is
\* a column exactly when some material has a priority or a reason; the
\* total-cost footer is shown exactly when no material has one, and its
\* amount is the sum of the total_cost values that are numbers.
C28_ColumnsAndFooter ==
    rendered.page = "table" =>
       LET materials == procurementData.material_requirements
           ai == \E i \in 1..Len(materials) :
                    Truthy(materials[i].priority) \/ Truthy(materials[i].reason)
           titles == rendered.titles
           has(title) == \E i \in 1..Len(titles) : titles[i] = title
           numbers == {i \in 1..Len(materials) : materials[i].total_cost.t = "number"}
       IN  /\ has("Material") /\ has("Quantity") /\ has("Unit Cost")
           /\ titles # <<>>
           /\ titles[Len(titles)] = IF ai THEN "Vendors" ELSE "Total Cost"
           /\ has("Priority") <=> ai
           /\ rendered.summary <=> ~ai
           /\ rendered.summary =>
                 rendered.total = SumOfCosts(materials, numbers)

\* C28 without its last column: the columns are Material, Priority when some
\* material has a priority or a reason, Quantity and Unit Cost, and the
\* footer is as claimed.
C28_ColumnsWithoutLast ==
    rendered.page = "table" =>
       LET materials == procurementData.material_requirements
           ai == \E i \in 1..Len(materials) :
                    Truthy(materials[i].priority) \/ Truthy(materials[i].reason)
       IN  /\ rendered.titles = IF ai THEN <<"Material", "Priority", "Quantity", "Unit Cost">>
                                ELSE <<"Material", "Quantity", "Unit Cost">>
           /\ rendered.summary <=> ~ai

\* The month offsets the loop of generateMonthMarkers visits.
Offsets(schedule) == {i \in 0..schedule.total_months : i % 3 = 0}
\* 0 <= p <= 100, and p < q for two positions over the same duration.
InChart(p) ==
    /\ p.k = "finite"
    /\ IF p.d > 0 THEN 0 <= p.n /\ p.n <= 100 * p.d
       ELSE 0 >= p.n /\ p.n >= 100 * p.d
Before(p, q) ==
    /\ p.k = "finite" /\ q.k = "finite" /\ p.d = q.d
    /\ IF p.d > 0 THEN p.n < q.n ELSE p.n > q.n

\* The markers are those of the offsets whose position is at most 100, in
\* the order of the offsets, each at its position.
EmissionRule(schedule, markers) ==
    LET position(i) == Quotient(i * 3000, schedule.total_duration)
        emitted == {i \in Offsets(schedule) : AtMost(position(i), 100)}
    IN  /\ {markers[k].i : k \in 1..Len(markers)} = emitted
        /\ Len(markers) = Cardinality(emitted)
        /\ \A k, l \in 1..Len(markers) : k < l => markers[k].i < markers[l].i
        /\ \A k \in 1..Len(markers) : markers[k].percent = position(markers[k].i)
InRangeAndIncreasing(markers) ==
    /\ \A k \in 1..Len(markers) : InChart(markers[k].percent)
    /\ \A k, l \in 1..Len(markers) :
          k < l => Before(markers[k].percent, markers[l].percent)

====
